---- MODULE Spec2Model ----
(***************************************************************************)
(* Ledger state engine of gadder_gold_token: staking, governance and the   *)
(* record codecs, modelled at the level of the account byte buffers.       *)
(*                                                                         *)
(* Machine integers keep their width.  A u64 or i64 is the tuple of its 8  *)
(* bytes, least significant first (two's complement for i64), because the  *)
(* model checker's own integers are narrower than 64 bits.  Arithmetic is  *)
(* done byte by byte with carries, so 2^64 wrap-around is the real one.    *)
(***************************************************************************)
EXTENDS Integers, Sequences, FiniteSets, TLC

VARIABLES
    data,             \* account key name -> byte buffer of the account
    engine,           \* the StakingContract instance: total_staked, reward_pool, penalty_pool
    now,              \* Clock::get()?.unix_timestamp, an i64
    overflow_checks,  \* build profile: TRUE = arithmetic overflow panics, FALSE = it wraps
    last,             \* what the latest operation was given, returned and requested
    steps,            \* number of operations issued so far
    calc              \* input and result of the stand-alone penalty computation

vars == <<data, engine, now, overflow_checks, last, steps, calc>>

-----------------------------------------------------------------------------
(* Bytes and 64-bit words *)

Byte == 0..255

Zeros(n) == [i \in 1..n |-> 0]

\* The n low bytes, least significant first, of a natural number below 2^31.
RECURSIVE LeBytes(_, _)
LeBytes(v, n) == IF n = 0 THEN <<>> ELSE <<v % 256>> \o LeBytes(v \div 256, n - 1)

U64(v) == LeBytes(v, 8)

\* u64::MAX and i64::MAX
U64_MAX == [i \in 1..8 |-> 255]
I64_MAX == [i \in 1..8 |-> IF i = 8 THEN 127 ELSE 255]
\* 2^63, the smallest u64 whose top bit is set
U64_TOP == [i \in 1..8 |-> IF i = 8 THEN 128 ELSE 0]

\* Natural-number value of a byte string; only for strings known to be small.
RECURSIVE NatOf(_)
NatOf(b) == IF Len(b) = 0 THEN 0 ELSE b[1] + 256 * NatOf(Tail(b))

\* No non-zero byte above the first n: the value fits n bytes.
FitsBytes(b, n) == \A i \in 1..Len(b) : i > n => b[i] = 0

Low(b, n) == [i \in 1..n |-> IF i <= Len(b) THEN b[i] ELSE 0]

\* Exact sum of two byte strings of equal length n, as n+1 bytes (carry is the carry in).
RECURSIVE AddFrom(_, _, _, _)
AddFrom(a, b, i, carry) ==
    IF i > Len(a) THEN <<carry>>
    ELSE LET t == a[i] + b[i] + carry
         IN  <<t % 256>> \o AddFrom(a, b, i + 1, t \div 256)

AddBytes(a, b) == AddFrom(a, b, 1, 0)

\* a - b modulo 256^n for byte strings of equal length n.
RECURSIVE SubFrom(_, _, _, _)
SubFrom(a, b, i, borrow) ==
    IF i > Len(a) THEN <<>>
    ELSE LET t == a[i] - b[i] - borrow
         IN  <<(t + 256) % 256>> \o SubFrom(a, b, i + 1, IF t < 0 THEN 1 ELSE 0)

SubBytes(a, b) == SubFrom(a, b, 1, 0)

\* Exact product of a byte string of length n and a natural k < 2^22, as n+3 bytes.
RECURSIVE MulFrom(_, _, _, _)
MulFrom(a, k, i, carry) ==
    IF i > Len(a) THEN LeBytes(carry, 3)
    ELSE LET t == a[i] * k + carry
         IN  <<t % 256>> \o MulFrom(a, k, i + 1, t \div 256)

MulSmall(a, k) == MulFrom(a, k, 1, 0)

\* Quotient of a byte string by a natural 0 < d < 2^22, same length: long division from
\* the most significant byte down, rem being the remainder carried into byte i.
RECURSIVE DivFrom(_, _, _, _)
DivFrom(a, d, i, rem) ==
    IF i = 0 THEN <<>>
    ELSE LET t == rem * 256 + a[i]
         IN  DivFrom(a, d, i - 1, t % d) \o <<t \div d>>

DivSmall(a, d) == DivFrom(a, d, Len(a), 0)

\* Unsigned order on byte strings of equal length.
RECURSIVE LtFrom(_, _, _)
LtFrom(a, b, i) ==
    IF i = 0 THEN FALSE
    ELSE IF a[i] # b[i] THEN a[i] < b[i]
    ELSE LtFrom(a, b, i - 1)

LtU(a, b) == LtFrom(a, b, Len(a))

LeU(a, b) == ~LtU(b, a)

IsNeg(a) == a[Len(a)] >= 128

\* Signed (two's complement) order on byte strings of equal length.
LtI(a, b) ==
    IF IsNeg(a) # IsNeg(b) THEN IsNeg(a) ELSE LtU(a, b)

\* Magnitude of a two's complement value.
Magnitude(a) == IF IsNeg(a) THEN SubBytes(Zeros(Len(a)), a) ELSE a

\* Result of a machine operation: the value and whether the operation panicked.
Val(v) == [v |-> v, panic |-> FALSE]
Panicked == [v |-> Zeros(8), panic |-> TRUE]

\* u64 `a + b`: panics on overflow with overflow checks, wraps without.
U64Add(a, b, checks) ==
    LET s == AddBytes(a, b)
    IN  IF checks /\ ~FitsBytes(s, 8) THEN Panicked ELSE Val(Low(s, 8))

\* u64 `a * k` for a small constant k: panics on overflow with overflow checks, wraps without.
U64MulSmall(a, k, checks) ==
    LET p == MulSmall(a, k)
    IN  IF checks /\ ~FitsBytes(p, 8) THEN Panicked ELSE Val(Low(p, 8))

\* u64::saturating_sub
U64SaturatingSub(a, b) == IF LtU(a, b) THEN Zeros(8) ELSE SubBytes(a, b)

\* i64 `a + b`: overflow exactly when both operands have one sign and the sum the other.
I64Add(a, b, checks) ==
    LET s == Low(AddBytes(a, b), 8)
        ovf == IsNeg(a) = IsNeg(b) /\ IsNeg(s) # IsNeg(a)
    IN  IF checks /\ ovf THEN Panicked ELSE Val(s)

\* i64 `a - b`: overflow exactly when the operands differ in sign and the result's sign is b's.
I64Sub(a, b, checks) ==
    LET s == SubBytes(a, b)
        ovf == IsNeg(a) # IsNeg(b) /\ IsNeg(s) = IsNeg(b)
    IN  IF checks /\ ovf THEN Panicked ELSE Val(s)

\* i64 `a * k` for a small positive constant k.  The low 64 bits of the product do not
\* depend on the sign convention; the product overflows when its magnitude leaves i64.
I64MulSmall(a, k, checks) ==
    LET p == MulSmall(a, k)
        m == MulSmall(Magnitude(a), k)
        ovf == IF IsNeg(a)
               THEN ~FitsBytes(m, 8) \/ LtU(U64_TOP, Low(m, 8))
               ELSE ~FitsBytes(m, 8) \/ IsNeg(Low(m, 8))
    IN  IF checks /\ ovf THEN Panicked ELSE Val(Low(p, 8))

\* i64 `a / d` for a small positive constant d: truncation toward zero.
I64DivSmall(a, d) ==
    IF IsNeg(a) THEN SubBytes(Zeros(8), DivSmall(Magnitude(a), d)) ELSE DivSmall(a, d)

-----------------------------------------------------------------------------
(* Account buffers and the Pack trait *)

BoolByte(b) == IF b THEN 1 ELSE 0

\* Pubkey::new_from_array([b; 32])
PubkeyOf(b) == [i \in 1..32 |-> b]

\* The bytes that successive `dst[cursor..cursor + n].copy_from_slice(field)` writes put
\* into a buffer of `room` bytes, cursor advancing by each field's length.  Slicing past
\* the end panics: the fields before the one that does not fit have been written by then,
\* that field and the later ones have not.
RECURSIVE Written(_, _, _)
Written(room, cursor, fields) ==
    IF Len(fields) = 0 \/ cursor + Len(Head(fields)) > room THEN <<>>
    ELSE Head(fields) \o Written(room, cursor + Len(Head(fields)), Tail(fields))

RECURSIVE TotalLen(_)
TotalLen(fields) == IF Len(fields) = 0 THEN 0 ELSE Len(Head(fields)) + TotalLen(Tail(fields))

\* dst after the writes, and whether one of them panicked.
PackFields(dst, cursor, fields) ==
    LET w == Written(Len(dst) - cursor, 0, fields)
    IN  [buf |-> [i \in 1..Len(dst) |->
                    IF i > cursor /\ i <= cursor + Len(w) THEN w[i - cursor] ELSE dst[i]],
         panic |-> Len(w) < TotalLen(fields)]

Ok(v) == [ok |-> TRUE, val |-> v, err |-> "Ok"]
Err(e) == [ok |-> FALSE, val |-> <<>>, err |-> e]

STAKE_LEN == 17

Stake_pack_into_slice_lock_first(s, dst) ==
    PackFields(dst, 0, <<s.lock_until, s.amount, <<BoolByte(s.is_initialized)>>>>)

Stake_pack_into_slice(s, dst) ==
    PackFields(dst, 0, <<s.amount, s.lock_until, <<BoolByte(s.is_initialized)>>>>)

Stake_unpack_from_slice(src) ==
    IF Len(src) < STAKE_LEN THEN Err("InvalidAccountData")
    ELSE Ok([amount |-> SubSeq(src, 1, 8),
             lock_until |-> SubSeq(src, 9, 16),
             is_initialized |-> src[17] # 0])

\* The amount field of a staking position, as stored.
AmountOf(buf) == SubSeq(buf, 1, 8)

\* Pack::unpack of solana_program: the input must be exactly LEN bytes long and the
\* unpacked value must be initialized.
Stake_unpack(input) ==
    IF Len(input) # STAKE_LEN THEN Err("InvalidAccountData")
    ELSE LET r == Stake_unpack_from_slice(input)
         IN  IF ~r.ok THEN r
             ELSE IF ~r.val.is_initialized THEN Err("UninitializedAccount")
             ELSE r

-----------------------------------------------------------------------------
(* StakingContract *)

SECONDS_PER_DAY == 86400

\* spl_token::id(), TokenkegQfeZyiNwAJbNbGKPFXCWuBvf9Ss623VQ5DA
SPL_TOKEN_ID ==
    <<6, 221, 246, 225, 215, 101, 161, 147, 217, 203, 225, 70, 206, 235, 121, 172,
      28, 180, 133, 237, 95, 91, 55, 145, 58, 140, 245, 133, 126, 255, 0, 169>>

StakingContract_new ==
    [total_staked |-> U64(0), reward_pool |-> U64(15000000), penalty_pool |-> U64(0)]

Transfer(from, to, amount) == [from |-> from, to |-> to, amount |-> amount]

\* Outcome of a method: the instance and the staking account's buffer as it leaves them,
\* the ProgramResult ("Panic" for an abort) and the transfers it asked the token program for.
Outcome(self, buf, res, transfers) ==
    [self |-> self, buf |-> buf, res |-> res, transfers |-> transfers]

redistribute_penalty_both_zero(self, checks) ==
    IF self.total_staked = U64(0) /\ self.penalty_pool = U64(0)
    THEN [self |-> self, panic |-> FALSE]
    ELSE LET sum == U64Add(self.reward_pool, self.penalty_pool, checks)
         IN  IF sum.panic THEN [self |-> self, panic |-> TRUE]
             ELSE [self |-> [self EXCEPT !.reward_pool = sum.v, !.penalty_pool = U64(0)],
                   panic |-> FALSE]

redistribute_penalty_keeps_pool(self, checks) ==
    IF self.total_staked = U64(0) \/ self.penalty_pool = U64(0)
    THEN [self |-> self, panic |-> FALSE]
    ELSE LET sum == U64Add(self.reward_pool, self.penalty_pool, checks)
         IN  IF sum.panic THEN [self |-> self, panic |-> TRUE]
             ELSE [self |-> [self EXCEPT !.reward_pool = sum.v], panic |-> FALSE]

redistribute_penalty_unguarded(self, checks) ==
    LET sum == U64Add(self.reward_pool, self.penalty_pool, checks)
    IN  IF sum.panic THEN [self |-> self, panic |-> TRUE]
        ELSE [self |-> [self EXCEPT !.reward_pool = sum.v, !.penalty_pool = U64(0)],
              panic |-> FALSE]

redistribute_penalty_burning(self, checks) ==
    IF self.total_staked = U64(0) \/ self.penalty_pool = U64(0)
    THEN [self |-> self, panic |-> FALSE]
    ELSE [self |-> [self EXCEPT !.penalty_pool = U64(0)], panic |-> FALSE]

redistribute_penalty(self, checks) ==
    IF self.total_staked = U64(0) \/ self.penalty_pool = U64(0)
    THEN [self |-> self, panic |-> FALSE]
    ELSE LET sum == U64Add(self.reward_pool, self.penalty_pool, checks)
         IN  IF sum.panic THEN [self |-> self, panic |-> TRUE]
             ELSE [self |-> [self EXCEPT !.reward_pool = sum.v, !.penalty_pool = U64(0)],
                   panic |-> FALSE]

\* stake_tokens undoing its write when the transfer fails.
stake_tokens_rollback(self, buf, clock, checks, is_signer, token_program_key, amount, lock_period_in_days, transfer_ok) ==
    IF ~is_signer THEN Outcome(self, buf, "MissingRequiredSignature", <<>>)
    ELSE IF token_program_key # SPL_TOKEN_ID THEN Outcome(self, buf, "InvalidAccountData", <<>>)
    ELSE
    LET span == I64MulSmall(lock_period_in_days, SECONDS_PER_DAY, checks)
        until == I64Add(clock, span.v, checks)
        stake_data == [amount |-> amount, lock_until |-> until.v, is_initialized |-> TRUE]
        packed == Stake_pack_into_slice(stake_data, buf)
        xfer == <<Transfer("staker", "pool", amount)>>
        total == U64Add(self.total_staked, amount, checks)
    IN  IF span.panic \/ until.panic THEN Outcome(self, buf, "Panic", <<>>)
        ELSE IF packed.panic THEN Outcome(self, packed.buf, "Panic", <<>>)
        ELSE IF ~transfer_ok THEN Outcome(self, buf, "TransferFailed", xfer)
        ELSE IF total.panic THEN Outcome(self, packed.buf, "Panic", xfer)
        ELSE Outcome([self EXCEPT !.total_staked = total.v], packed.buf, "Ok", xfer)

\* stake_tokens testing the token program before the signer.
stake_tokens_program_first(self, buf, clock, checks, is_signer, token_program_key, amount, lock_period_in_days, transfer_ok) ==
    IF token_program_key # SPL_TOKEN_ID THEN Outcome(self, buf, "InvalidAccountData", <<>>)
    ELSE IF ~is_signer THEN Outcome(self, buf, "MissingRequiredSignature", <<>>)
    ELSE
    LET span == I64MulSmall(lock_period_in_days, SECONDS_PER_DAY, checks)
        until == I64Add(clock, span.v, checks)
        stake_data == [amount |-> amount, lock_until |-> until.v, is_initialized |-> TRUE]
        packed == Stake_pack_into_slice(stake_data, buf)
        xfer == <<Transfer("staker", "pool", amount)>>
        total == U64Add(self.total_staked, amount, checks)
    IN  IF span.panic \/ until.panic THEN Outcome(self, buf, "Panic", <<>>)
        ELSE IF packed.panic THEN Outcome(self, packed.buf, "Panic", <<>>)
        ELSE IF ~transfer_ok THEN Outcome(self, packed.buf, "TransferFailed", xfer)
        ELSE IF total.panic THEN Outcome(self, packed.buf, "Panic", xfer)
        ELSE Outcome([self EXCEPT !.total_staked = total.v], packed.buf, "Ok", xfer)

\* stake_tokens adding the amount to the balance the position holds.
stake_tokens_adding(self, buf, clock, checks, is_signer, token_program_key, amount, lock_period_in_days, transfer_ok) ==
    IF ~is_signer THEN Outcome(self, buf, "MissingRequiredSignature", <<>>)
    ELSE IF token_program_key # SPL_TOKEN_ID THEN Outcome(self, buf, "InvalidAccountData", <<>>)
    ELSE
    LET span == I64MulSmall(lock_period_in_days, SECONDS_PER_DAY, checks)
        until == I64Add(clock, span.v, checks)
        held == U64Add(SubSeq(buf, 1, 8), amount, checks)
        stake_data == [amount |-> held.v, lock_until |-> until.v, is_initialized |-> TRUE]
        packed == Stake_pack_into_slice(stake_data, buf)
        xfer == <<Transfer("staker", "pool", amount)>>
        total == U64Add(self.total_staked, amount, checks)
    IN  IF span.panic \/ until.panic \/ held.panic THEN Outcome(self, buf, "Panic", <<>>)
        ELSE IF packed.panic THEN Outcome(self, packed.buf, "Panic", <<>>)
        ELSE IF ~transfer_ok THEN Outcome(self, packed.buf, "TransferFailed", xfer)
        ELSE IF total.panic THEN Outcome(self, packed.buf, "Panic", xfer)
        ELSE Outcome([self EXCEPT !.total_staked = total.v], packed.buf, "Ok", xfer)

stake_tokens(self, buf, clock, checks, is_signer, token_program_key, amount, lock_period_in_days, transfer_ok) ==
    IF ~is_signer THEN Outcome(self, buf, "MissingRequiredSignature", <<>>)
    ELSE IF token_program_key # SPL_TOKEN_ID THEN Outcome(self, buf, "InvalidAccountData", <<>>)
    ELSE
    LET span == I64MulSmall(lock_period_in_days, SECONDS_PER_DAY, checks)
        until == I64Add(clock, span.v, checks)
        stake_data == [amount |-> amount, lock_until |-> until.v, is_initialized |-> TRUE]
        packed == Stake_pack_into_slice(stake_data, buf)
        xfer == <<Transfer("staker", "pool", amount)>>
        total == U64Add(self.total_staked, amount, checks)
    IN  IF span.panic \/ until.panic THEN Outcome(self, buf, "Panic", <<>>)
        ELSE IF packed.panic THEN Outcome(self, packed.buf, "Panic", <<>>)
        ELSE IF ~transfer_ok THEN Outcome(self, packed.buf, "TransferFailed", xfer)
        ELSE IF total.panic THEN Outcome(self, packed.buf, "Panic", xfer)
        ELSE Outcome([self EXCEPT !.total_staked = total.v], packed.buf, "Ok", xfer)

\* The penalty percentage of unstake_tokens.
penalty_percent_from_90(current_time, lock_until, checks) ==
    IF LtI(current_time, lock_until)
    THEN LET remaining_days == I64DivSmall(I64Sub(lock_until, current_time, checks).v, SECONDS_PER_DAY)
         IN  IF LtI(U64(89), remaining_days) THEN [v |-> 10, panic |-> FALSE]
             ELSE IF LtI(U64(30), remaining_days) THEN [v |-> 7, panic |-> FALSE]
             ELSE [v |-> 5, panic |-> FALSE]
    ELSE [v |-> 0, panic |-> FALSE]

penalty_percent_free_last_day(current_time, lock_until, checks) ==
    IF LtI(current_time, lock_until)
    THEN LET remaining_days == I64DivSmall(I64Sub(lock_until, current_time, checks).v, SECONDS_PER_DAY)
         IN  IF LtI(U64(90), remaining_days) THEN [v |-> 10, panic |-> FALSE]
             ELSE IF LtI(U64(30), remaining_days) THEN [v |-> 7, panic |-> FALSE]
             ELSE IF LtI(U64(0), remaining_days) THEN [v |-> 5, panic |-> FALSE]
             ELSE [v |-> 0, panic |-> FALSE]
    ELSE [v |-> 0, panic |-> FALSE]

penalty_percent(current_time, lock_until, checks) ==
    IF LtI(current_time, lock_until)
    THEN LET span == I64Sub(lock_until, current_time, checks)
             remaining_days == I64DivSmall(span.v, SECONDS_PER_DAY)
         IN  IF span.panic THEN [v |-> 0, panic |-> TRUE]
             ELSE IF LtI(U64(90), remaining_days) THEN [v |-> 10, panic |-> FALSE]
             ELSE IF LtI(U64(30), remaining_days) THEN [v |-> 7, panic |-> FALSE]
             ELSE [v |-> 5, panic |-> FALSE]
    ELSE [v |-> 0, panic |-> FALSE]

\* `(amount * penalty) / 100`
penalty_amount_of(amount, penalty, checks) ==
    LET prod == U64MulSmall(amount, penalty, checks)
    IN  IF prod.panic THEN Panicked ELSE Val(DivSmall(prod.v, 100))

final_amount_of_gross(amount, penalty_amount) == amount
final_amount_of(amount, penalty_amount) == U64SaturatingSub(amount, penalty_amount)

\* `stake_data.amount < amount`, the InsufficientFunds check
insufficient_funds_inverted(stake_amount, amount) == LtU(amount, stake_amount)
insufficient_funds(stake_amount, amount) == LtU(stake_amount, amount)

\* unstake_tokens moving the penalty pool to the rewards before it asks for the transfer.
unstake_tokens_redistribute_first(self, buf, clock, checks, is_signer, token_program_key, amount, transfer_ok) ==
    IF ~is_signer THEN Outcome(self, buf, "MissingRequiredSignature", <<>>)
    ELSE IF token_program_key # SPL_TOKEN_ID THEN Outcome(self, buf, "InvalidAccountData", <<>>)
    ELSE IF ~Stake_unpack(buf).ok THEN Outcome(self, buf, Stake_unpack(buf).err, <<>>)
    ELSE IF LtU(Stake_unpack(buf).val.amount, amount) THEN Outcome(self, buf, "InsufficientFunds", <<>>)
    ELSE
    LET stake_data == Stake_unpack(buf).val
        penalty == penalty_percent(clock, stake_data.lock_until, checks)
        penalty_amount == penalty_amount_of(amount, penalty.v, checks)
        packed == Stake_pack_into_slice([stake_data EXCEPT !.amount = SubBytes(stake_data.amount, amount)], buf)
        pool == U64Add(self.penalty_pool, penalty_amount.v, checks)
        self1 == [self EXCEPT !.total_staked = U64SaturatingSub(self.total_staked, amount),
                              !.penalty_pool = pool.v]
        xfer == <<Transfer("pool", "staker", U64SaturatingSub(amount, penalty_amount.v))>>
        redist == redistribute_penalty(self1, checks)
    IN  IF penalty.panic \/ penalty_amount.panic \/ packed.panic \/ pool.panic \/ redist.panic
        THEN Outcome(self, buf, "Panic", <<>>)
        ELSE Outcome(redist.self, packed.buf, IF transfer_ok THEN "Ok" ELSE "TransferFailed", xfer)

unstake_tokens(self, buf, clock, checks, is_signer, token_program_key, amount, transfer_ok) ==
    IF ~is_signer THEN Outcome(self, buf, "MissingRequiredSignature", <<>>)
    ELSE IF token_program_key # SPL_TOKEN_ID THEN Outcome(self, buf, "InvalidAccountData", <<>>)
    ELSE
    LET unpacked == Stake_unpack(buf)
    IN  IF ~unpacked.ok THEN Outcome(self, buf, unpacked.err, <<>>)
        ELSE
        LET stake_data == unpacked.val
        IN  IF insufficient_funds(stake_data.amount, amount)
            THEN Outcome(self, buf, "InsufficientFunds", <<>>)
            ELSE
            LET penalty == penalty_percent(clock, stake_data.lock_until, checks)
                penalty_amount == penalty_amount_of(amount, penalty.v, checks)
                final_amount == final_amount_of(amount, penalty_amount.v)
                packed == Stake_pack_into_slice(
                            [stake_data EXCEPT !.amount = SubBytes(stake_data.amount, amount)],
                            buf)
                pool == U64Add(self.penalty_pool, penalty_amount.v, checks)
                self1 == [self EXCEPT
                            !.total_staked = U64SaturatingSub(self.total_staked, amount),
                            !.penalty_pool = pool.v]
                xfer == <<Transfer("pool", "staker", final_amount)>>
                redist == redistribute_penalty(self1, checks)
            IN  IF penalty.panic \/ penalty_amount.panic THEN Outcome(self, buf, "Panic", <<>>)
                ELSE IF packed.panic THEN Outcome(self, packed.buf, "Panic", <<>>)
                ELSE IF pool.panic
                     THEN Outcome([self EXCEPT !.total_staked = self1.total_staked],
                                  packed.buf, "Panic", <<>>)
                ELSE IF ~transfer_ok THEN Outcome(self1, packed.buf, "TransferFailed", xfer)
                ELSE IF redist.panic THEN Outcome(self1, packed.buf, "Panic", xfer)
                ELSE Outcome(redist.self, packed.buf, "Ok", xfer)

get_staked_amount_lenient(buf) ==
    LET unpacked == Stake_unpack(buf)
    IN  IF unpacked.ok THEN Ok(unpacked.val.amount) ELSE Ok(U64(0))

get_staked_amount_lock(buf) ==
    LET unpacked == Stake_unpack(buf)
    IN  IF unpacked.ok THEN Ok(unpacked.val.lock_until) ELSE Err(unpacked.err)

get_staked_amount(buf) ==
    LET unpacked == Stake_unpack(buf)
    IN  IF unpacked.ok THEN Ok(unpacked.val.amount) ELSE Err(unpacked.err)

-----------------------------------------------------------------------------
(* Proposal and Vote records *)

ADMIN_PUBKEY == PubkeyOf(170)
GOVERNANCE_PUBKEY == PubkeyOf(187)

IsCont(b) == b >= 128 /\ b <= 191

\* String::from_utf8 accepts exactly the well-formed UTF-8 byte strings.
RECURSIVE ValidUtf8From(_, _)
ValidUtf8From(b, i) ==
    IF i > Len(b) THEN TRUE
    ELSE LET c == b[i]
             has(k) == i + k <= Len(b)
         IN  IF c <= 127 THEN ValidUtf8From(b, i + 1)
             ELSE IF c >= 194 /\ c <= 223
                  THEN has(1) /\ IsCont(b[i + 1]) /\ ValidUtf8From(b, i + 2)
             ELSE IF c >= 224 /\ c <= 239
                  THEN /\ has(2)
                       /\ IsCont(b[i + 1]) /\ IsCont(b[i + 2])
                       /\ (c = 224 => b[i + 1] >= 160)
                       /\ (c = 237 => b[i + 1] <= 159)
                       /\ ValidUtf8From(b, i + 3)
             ELSE IF c >= 240 /\ c <= 244
                  THEN /\ has(3)
                       /\ IsCont(b[i + 1]) /\ IsCont(b[i + 2]) /\ IsCont(b[i + 3])
                       /\ (c = 240 => b[i + 1] >= 144)
                       /\ (c = 244 => b[i + 1] <= 143)
                       /\ ValidUtf8From(b, i + 4)
             ELSE FALSE

\* Text of ASCII bytes only is well formed; the rest is scanned character by character.
ValidUtf8(b) == (\A i \in 1..Len(b) : b[i] <= 127) \/ ValidUtf8From(b, 1)

PROPOSAL_LEN == 300

Proposal_pack_into_slice(p, dst) ==
    PackFields(dst, 0,
        <<LeBytes(Len(p.description), 4), p.description, p.proposer,
          <<BoolByte(p.active)>>, p.timestamp, <<BoolByte(p.is_initialized)>>>>)

\* "Panic" is an out-of-range slice or index: only the description is checked against
\* the length of src, the 42 bytes of fixed fields after it are not.
Proposal_unpack_from_slice(src) ==
    IF Len(src) < 45 THEN Err("InvalidAccountData")
    ELSE
    LET huge == src[3] # 0 \/ src[4] # 0    \* declared length of 65536 or more
        desc_len == src[1] + 256 * src[2]
        cursor == 4 + desc_len
    IN  IF huge \/ cursor > Len(src) THEN Err("InvalidAccountData")
        ELSE IF ~ValidUtf8(SubSeq(src, 5, cursor)) THEN Err("InvalidAccountData")
        ELSE IF cursor + 42 > Len(src) THEN Err("Panic")
        ELSE Ok([description |-> SubSeq(src, 5, cursor),
                 proposer |-> SubSeq(src, cursor + 1, cursor + 32),
                 active |-> src[cursor + 33] # 0,
                 timestamp |-> SubSeq(src, cursor + 34, cursor + 41),
                 is_initialized |-> src[cursor + 42] # 0])

Proposal_unpack(input) ==
    IF Len(input) # PROPOSAL_LEN THEN Err("InvalidAccountData")
    ELSE LET r == Proposal_unpack_from_slice(input)
         IN  IF ~r.ok THEN r
             ELSE IF ~r.val.is_initialized THEN Err("UninitializedAccount")
             ELSE r

\* The slot holds a decodable proposal that is open, or closed.
Open(buf) == Proposal_unpack(buf).ok /\ Proposal_unpack(buf).val.active
Closed(buf) == Proposal_unpack(buf).ok /\ ~Proposal_unpack(buf).val.active

VOTE_LEN == 73

Vote_pack_into_slice(v, dst) ==
    PackFields(dst, 0,
        <<v.proposal, v.voter, <<BoolByte(v.vote)>>, v.weight, <<BoolByte(v.is_initialized)>>>>)

\* The five fields take 32 + 32 + 1 + 8 + 1 = 74 bytes, one more than LEN: on a source of
\* exactly LEN bytes the read of is_initialized, `src[cursor]` with cursor = 73, is out of
\* range and panics.
Vote_unpack_from_slice(src) ==
    IF Len(src) < VOTE_LEN THEN Err("InvalidAccountData")
    ELSE IF Len(src) < 74 THEN Err("Panic")
    ELSE Ok([proposal |-> SubSeq(src, 1, 32),
             voter |-> SubSeq(src, 33, 64),
             vote |-> src[65] # 0,
             weight |-> SubSeq(src, 66, 73),
             is_initialized |-> src[74] # 0])

Vote_unpack(input) ==
    IF Len(input) # VOTE_LEN THEN Err("InvalidAccountData")
    ELSE LET r == Vote_unpack_from_slice(input)
         IN  IF ~r.ok THEN r
             ELSE IF ~r.val.is_initialized THEN Err("UninitializedAccount")
             ELSE r

-----------------------------------------------------------------------------
(* GovernanceContract *)

\* The authority check of execute_proposal
is_authority_anyone(key) == TRUE
is_authority(key) == key = ADMIN_PUBKEY \/ key = GOVERNANCE_PUBKEY

\* `proposal.active = false`
mark_executed_noop(proposal) == proposal
mark_executed(proposal) == [proposal EXCEPT !.active = FALSE]

\* `!proposal.active`, the check of vote_on_proposal
vote_rejected_never(proposal) == FALSE
vote_rejected(proposal) == ~proposal.active

\* Outcome of a governance method: the buffer it writes as it leaves it, and the result.
GovOutcome(buf, res) == [buf |-> buf, res |-> res]

create_proposal(buf, clock, is_signer, proposer_key, description) ==
    IF ~is_signer THEN GovOutcome(buf, "MissingRequiredSignature")
    ELSE
    LET proposal == [description |-> description, proposer |-> proposer_key,
                     active |-> TRUE, timestamp |-> clock, is_initialized |-> TRUE]
        packed == Proposal_pack_into_slice(proposal, buf)
    IN  GovOutcome(packed.buf, IF packed.panic THEN "Panic" ELSE "Ok")

execute_proposal(buf, authority_key, is_signer) ==
    IF ~is_authority(authority_key) THEN GovOutcome(buf, "IllegalOwner")
    ELSE IF ~is_signer THEN GovOutcome(buf, "MissingRequiredSignature")
    ELSE
    LET unpacked == Proposal_unpack(buf)
    IN  IF ~unpacked.ok THEN GovOutcome(buf, unpacked.err)
        ELSE IF ~unpacked.val.active THEN GovOutcome(buf, "InvalidArgument")
        ELSE LET packed == Proposal_pack_into_slice(mark_executed(unpacked.val), buf)
             IN  GovOutcome(packed.buf, IF packed.panic THEN "Panic" ELSE "Ok")

\* A vote that is refused once the slot holds a ballot.
vote_on_proposal_once(vote_buf, proposal_buf, staking_buf, is_signer, voter_key, proposal_key, vote_in_favor) ==
    IF Len(vote_buf) >= 74 /\ vote_buf[74] # 0 THEN [buf |-> vote_buf, res |-> "AccountAlreadyInitialized"]
    ELSE LET staked == get_staked_amount(staking_buf)
             vote_data == [proposal |-> proposal_key, voter |-> voter_key, vote |-> vote_in_favor,
                           weight |-> IF staked.ok THEN staked.val ELSE U64(0),
                           is_initialized |-> TRUE]
             packed == Vote_pack_into_slice(vote_data, vote_buf)
         IN  [buf |-> packed.buf,
              res |-> IF ~is_signer THEN "MissingRequiredSignature" ELSE IF packed.panic THEN "Panic" ELSE "Ok"]

vote_on_proposal(vote_buf, proposal_buf, staking_buf, is_signer, voter_key, proposal_key, vote_in_favor) ==
    IF ~is_signer THEN GovOutcome(vote_buf, "MissingRequiredSignature")
    ELSE
    LET unpacked == Proposal_unpack(proposal_buf)
    IN  IF ~unpacked.ok THEN GovOutcome(vote_buf, unpacked.err)
        ELSE IF vote_rejected(unpacked.val) THEN GovOutcome(vote_buf, "InvalidArgument")
        ELSE
        LET staked == get_staked_amount(staking_buf)
            staked_amount == IF staked.ok THEN staked.val ELSE U64(0)
            vote_data == [proposal |-> proposal_key, voter |-> voter_key,
                          vote |-> vote_in_favor, weight |-> staked_amount,
                          is_initialized |-> TRUE]
            packed == Vote_pack_into_slice(vote_data, vote_buf)
        IN  GovOutcome(packed.buf, IF packed.panic THEN "Panic" ELSE "Ok")

-----------------------------------------------------------------------------
(* The ledger: accounts, callers and the operations issued against them *)

StakeSlots == {"stake1"}
ProposalSlots == {"proposal1"}
VoteSlots == {"vote1", "vote2"}
Accounts == StakeSlots \cup ProposalSlots \cup VoteSlots

\* Size of the buffer the host allocated for each account: the LEN of its record type,
\* and for vote2 one byte more, which is what the five fields of a Vote take.
SizeOf(a) == IF a \in StakeSlots THEN STAKE_LEN
             ELSE IF a \in ProposalSlots THEN PROPOSAL_LEN
             ELSE IF a = "vote1" THEN VOTE_LEN
             ELSE VOTE_LEN + 1

\* The key of each account.
KeyOf(a) == IF a = "stake1" THEN PubkeyOf(17)
            ELSE IF a = "proposal1" THEN PubkeyOf(33)
            ELSE IF a = "vote1" THEN PubkeyOf(49)
            ELSE PubkeyOf(50)

\* Caller identities: two ordinary users and the two privileged identities.
ALICE == PubkeyOf(1)
BOB == PubkeyOf(2)
OTHER_PROGRAM == PubkeyOf(9)

\* Bounds on the number of operations in one run of each engine.
MaxStakingSteps == 3
MaxGovSteps == 4
MaxLedgerSteps == 4
MaxRedistributeCalls == 2
MaxBridgeSteps == 2
MaxDispatchSteps == 2
MaxVoteSteps == 2
MaxCreateSteps == 2
MaxSumSteps == 3
MaxTallySteps == 3

\* Inputs offered to the operations.  Calls that pass the signer and token-program
\* checks range over every amount and lock period; one call of each kind fails each check.
Amounts == {U64(200), U64(1000), U64(1001)}
LockDays == {U64(0), U64(100)}
Ticks == {U64(1), U64(86400)}
Descriptions == {<<>>, <<70, 117, 110, 100>>}
StartTimes == {U64(1700000000)}

StakeCalls ==
    [signer : {TRUE}, token_program : {SPL_TOKEN_ID}, amount : Amounts, lock_days : LockDays, transfer_ok : BOOLEAN]
    \cup [signer : {FALSE}, token_program : {SPL_TOKEN_ID, OTHER_PROGRAM}, amount : {U64(200)}, lock_days : {U64(0)}, transfer_ok : {TRUE}]
    \cup [signer : {TRUE}, token_program : {OTHER_PROGRAM}, amount : {U64(200)}, lock_days : {U64(0)}, transfer_ok : {TRUE}]

UnstakeCalls ==
    [signer : {TRUE}, token_program : {SPL_TOKEN_ID}, amount : Amounts, transfer_ok : BOOLEAN]
    \cup [signer : {FALSE}, token_program : {SPL_TOKEN_ID, OTHER_PROGRAM}, amount : {U64(200)}, transfer_ok : {TRUE}]
    \cup [signer : {TRUE}, token_program : {OTHER_PROGRAM}, amount : {U64(200)}, transfer_ok : {TRUE}]

CreateCalls ==
    [signer : {TRUE}, caller : {ALICE}, description : Descriptions]
    \cup [signer : {FALSE}, caller : {ALICE}, description : {<<>>}]

ExecuteCalls ==
    [signer : BOOLEAN, caller : {ADMIN_PUBKEY, ALICE}]
    \cup [signer : {TRUE}, caller : {GOVERNANCE_PUBKEY}]

VoteCalls ==
    [signer : {TRUE}, caller : {ALICE, BOB}, in_favor : BOOLEAN]
    \cup [signer : {FALSE}, caller : {ALICE}, in_favor : {TRUE}]

NoCalc == [phase |-> "idle"]
NoOp == [op |-> "none", res |-> "Ok"]

Stake(pos, c) ==
    LET o == stake_tokens(engine, data[pos], now, overflow_checks, c.signer, c.token_program, c.amount, c.lock_days, c.transfer_ok)
    IN  /\ data' = [data EXCEPT ![pos] = o.buf]
        /\ engine' = o.self
        /\ last' = [op |-> "stake_tokens", res |-> o.res, pos |-> pos, before |-> data[pos], signer |-> c.signer,
                    token_program |-> c.token_program, amount |-> c.amount,
                    lock_days |-> c.lock_days, transfer_ok |-> c.transfer_ok,
                    transfers |-> o.transfers]
        /\ steps' = steps + 1
        /\ UNCHANGED <<now, overflow_checks, calc>>

\* An unstake that also recomputes the weight of every vote already cast.
Unstake_reweighing(pos, c) ==
    LET o == unstake_tokens(engine, data[pos], now, overflow_checks, c.signer, c.token_program, c.amount, c.transfer_ok)
        reweighed(v) == IF Len(data[v]) >= 74 /\ data[v][74] # 0
                        THEN SubSeq(data[v], 1, 65) \o AmountOf(o.buf) \o SubSeq(data[v], 74, Len(data[v]))
                        ELSE data[v]
    IN  /\ data' = [a \in Accounts |-> IF a = pos THEN o.buf
                                       ELSE IF a \in VoteSlots THEN reweighed(a) ELSE data[a]]
        /\ engine' = o.self
        /\ last' = [op |-> "unstake_tokens", res |-> o.res, pos |-> pos, before |-> data[pos], signer |-> c.signer,
                    token_program |-> c.token_program, amount |-> c.amount,
                    transfer_ok |-> c.transfer_ok, transfers |-> o.transfers]
        /\ steps' = steps + 1
        /\ UNCHANGED <<now, overflow_checks, calc>>

Unstake(pos, c) ==
    LET o == unstake_tokens(engine, data[pos], now, overflow_checks, c.signer, c.token_program, c.amount, c.transfer_ok)
    IN  /\ data' = [data EXCEPT ![pos] = o.buf]
        /\ engine' = o.self
        /\ last' = [op |-> "unstake_tokens", res |-> o.res, pos |-> pos, before |-> data[pos], signer |-> c.signer,
                    token_program |-> c.token_program, amount |-> c.amount,
                    transfer_ok |-> c.transfer_ok, transfers |-> o.transfers]
        /\ steps' = steps + 1
        /\ UNCHANGED <<now, overflow_checks, calc>>

Redistribute ==
    LET r == redistribute_penalty(engine, overflow_checks)
    IN  /\ engine' = r.self
        /\ last' = [op |-> "redistribute_penalty", res |-> IF r.panic THEN "Panic" ELSE "Ok"]
        /\ steps' = steps + 1
        /\ UNCHANGED <<data, now, overflow_checks, calc>>

CreateProposal(pos, c) ==
    LET o == create_proposal(data[pos], now, c.signer, c.caller, c.description)
    IN  /\ data' = [data EXCEPT ![pos] = o.buf]
        /\ last' = [op |-> "create_proposal", res |-> o.res, pos |-> pos, before |-> data[pos], signer |-> c.signer,
                    caller |-> c.caller, description |-> c.description]
        /\ steps' = steps + 1
        /\ UNCHANGED <<engine, now, overflow_checks, calc>>

ExecuteProposal(pos, c) ==
    LET o == execute_proposal(data[pos], c.caller, c.signer)
    IN  /\ data' = [data EXCEPT ![pos] = o.buf]
        /\ last' = [op |-> "execute_proposal", res |-> o.res, pos |-> pos, before |-> data[pos], signer |-> c.signer,
                    caller |-> c.caller]
        /\ steps' = steps + 1
        /\ UNCHANGED <<engine, now, overflow_checks, calc>>

Vote(vpos, ppos, spos, c) ==
    LET o == vote_on_proposal(data[vpos], data[ppos], data[spos], c.signer, c.caller, KeyOf(ppos), c.in_favor)
    IN  /\ data' = [data EXCEPT ![vpos] = o.buf]
        /\ last' = [op |-> "vote_on_proposal", res |-> o.res, pos |-> vpos, before |-> data[vpos], signer |-> c.signer,
                    caller |-> c.caller, proposal |-> ppos, staking |-> spos,
                    in_favor |-> c.in_favor]
        /\ steps' = steps + 1
        /\ UNCHANGED <<engine, now, overflow_checks, calc>>

\* The clock moves between operations.
Tick(dt) ==
    /\ now' = I64Add(now, dt, FALSE).v
    /\ last' = [op |-> "tick", res |-> "Ok"]
    /\ steps' = steps + 1
    /\ UNCHANGED <<data, engine, overflow_checks, calc>>

-----------------------------------------------------------------------------
(* Staking: one engine instance that lives across the operations *)

InitStaking ==
    /\ data = [a \in Accounts |-> Zeros(SizeOf(a))]
    /\ engine = StakingContract_new
    /\ now \in StartTimes
    /\ overflow_checks \in BOOLEAN
    /\ last = NoOp
    /\ steps = 0
    /\ calc = NoCalc

NextStaking ==
    \/ \E pos \in StakeSlots, c \in StakeCalls : steps < MaxStakingSteps /\ Stake(pos, c)
    \/ \E pos \in StakeSlots, c \in UnstakeCalls : steps < MaxStakingSteps /\ Unstake(pos, c)
    \/ steps < MaxStakingSteps /\ Redistribute
    \/ \E dt \in Ticks : steps < MaxStakingSteps /\ Tick(dt)

SpecStaking == InitStaking /\ [][NextStaking]_vars

-----------------------------------------------------------------------------
(* Governance: proposals and votes, over staking positions left by earlier stakes *)

\* The staking position as a successful stake of the given amount leaves it.
StakedBuf(clock, amount, days) ==
    stake_tokens(StakingContract_new, Zeros(STAKE_LEN), clock, FALSE, TRUE, SPL_TOKEN_ID, amount, days, TRUE).buf

InitGov ==
    /\ now \in StartTimes
    /\ \E sb \in {Zeros(STAKE_LEN), StakedBuf(now, U64(200), U64(100))} :
          data = [a \in Accounts |-> IF a \in StakeSlots THEN sb ELSE Zeros(SizeOf(a))]
    /\ engine = StakingContract_new
    /\ overflow_checks \in BOOLEAN
    /\ last = NoOp
    /\ steps = 0
    /\ calc = NoCalc

NextGov ==
    \/ \E pos \in ProposalSlots, c \in CreateCalls : steps < MaxGovSteps /\ CreateProposal(pos, c)
    \/ \E pos \in ProposalSlots, c \in ExecuteCalls : steps < MaxGovSteps /\ ExecuteProposal(pos, c)
    \/ \E vpos \in VoteSlots, ppos \in ProposalSlots, spos \in StakeSlots, c \in VoteCalls :
          steps < MaxGovSteps /\ Vote(vpos, ppos, spos, c)

SpecGov == InitGov /\ [][NextGov]_vars

-----------------------------------------------------------------------------
(* The penalty computation of unstake_tokens on its own *)

\* Seconds from the clock to lock_until: expired locks, the last day of a lock, and
\* both sides of the 30-day and 90-day tier boundaries.
PenaltyOffsets ==
    {-1700000000, -1, 0, 1, 86399, 86400, 10 * 86400, 30 * 86400, 30 * 86400 + 86399,
     31 * 86400, 60 * 86400, 90 * 86400, 90 * 86400 + 86399, 91 * 86400, 100 * 86400}

\* u64::MAX / 10, the largest amount whose product with 10 fits a u64
U64_MAX_DIV_10 == [i \in 1..8 |-> IF i = 8 THEN 25 ELSE 153]

PenaltyAmounts ==
    {U64(0), U64(1), U64(99), U64(1000), U64(1001), U64_MAX_DIV_10,
     Low(AddBytes(U64_MAX_DIV_10, U64(1)), 8), U64_TOP, U64_MAX}

InitPenalty ==
    /\ data = [a \in Accounts |-> Zeros(SizeOf(a))]
    /\ engine = StakingContract_new
    /\ now \in StartTimes
    /\ overflow_checks \in BOOLEAN
    /\ last = NoOp
    /\ steps = 0
    /\ \E amount \in PenaltyAmounts, offset \in PenaltyOffsets :
          calc = [phase |-> "input", amount |-> amount, offset |-> offset,
                  lock_until |-> U64(NatOf(Low(now, 4)) + offset),
                  penalty |-> 0, penalty_amount |-> U64(0), final_amount |-> U64(0),
                  panic |-> FALSE]

\* Lines 115-130 of unstake_tokens on a stake locked until calc.lock_until.
ComputePenalty ==
    /\ calc.phase = "input"
    /\ LET penalty == penalty_percent(now, calc.lock_until, overflow_checks)
           penalty_amount == penalty_amount_of(calc.amount, penalty.v, overflow_checks)
       IN  calc' = [calc EXCEPT
                      !.phase = "done",
                      !.penalty = penalty.v,
                      !.penalty_amount = penalty_amount.v,
                      !.final_amount = final_amount_of(calc.amount, penalty_amount.v),
                      !.panic = penalty.panic \/ penalty_amount.panic]
    /\ UNCHANGED <<data, engine, now, overflow_checks, last, steps>>

NextPenalty == ComputePenalty

SpecPenalty == InitPenalty /\ [][NextPenalty]_vars

-----------------------------------------------------------------------------
(* The whole ledger: staking and governance operations interleaved on one position *)

LedgerStakeCalls ==
    [signer : {TRUE}, token_program : {SPL_TOKEN_ID}, amount : {U64(1000)}, lock_days : {U64(0)}, transfer_ok : {TRUE}]

LedgerUnstakeCalls ==
    [signer : {TRUE}, token_program : {SPL_TOKEN_ID}, amount : {U64(200)}, transfer_ok : {TRUE}]

LedgerCreateCalls == [signer : {TRUE}, caller : {ALICE}, description : {<<70, 117, 110, 100>>}]

LedgerExecuteCalls == [signer : {TRUE}, caller : {ADMIN_PUBKEY}]

LedgerVoteCalls == [signer : {TRUE}, caller : {ALICE, BOB}, in_favor : {TRUE}]

InitLedger ==
    /\ now \in StartTimes
    /\ data = [a \in Accounts |-> IF a \in StakeSlots THEN StakedBuf(now, U64(200), U64(100))
                                  ELSE Zeros(SizeOf(a))]
    /\ engine = StakingContract_new
    /\ overflow_checks \in BOOLEAN
    /\ last = NoOp
    /\ steps = 0
    /\ calc = NoCalc

NextLedger ==
    \/ \E pos \in StakeSlots, c \in LedgerStakeCalls : steps < MaxLedgerSteps /\ Stake(pos, c)
    \/ \E pos \in StakeSlots, c \in LedgerUnstakeCalls : steps < MaxLedgerSteps /\ Unstake(pos, c)
    \/ \E pos \in ProposalSlots, c \in LedgerCreateCalls : steps < MaxLedgerSteps /\ CreateProposal(pos, c)
    \/ \E pos \in ProposalSlots, c \in LedgerExecuteCalls : steps < MaxLedgerSteps /\ ExecuteProposal(pos, c)
    \/ \E vpos \in VoteSlots, ppos \in ProposalSlots, spos \in StakeSlots, c \in LedgerVoteCalls :
          steps < MaxLedgerSteps /\ Vote(vpos, ppos, spos, c)

SpecLedger == InitLedger /\ [][NextLedger]_vars

-----------------------------------------------------------------------------
(* One stake_tokens call over the whole range of its arguments *)

\* i64::MAX / 86400, the longest lock period whose length in seconds fits an i64
I64_MAX_DAYS == DivSmall(I64_MAX, SECONDS_PER_DAY)

WideAmounts == {U64(0), U64(200), U64(1000), U64_TOP, U64_MAX}

WideLockDays ==
    {U64(0), U64(1), U64(100), I64_MAX_DAYS, Low(AddBytes(I64_MAX_DAYS, U64(1)), 8), U64_TOP, U64_MAX}

WideStakeCalls ==
    [signer : {TRUE}, token_program : {SPL_TOKEN_ID}, amount : WideAmounts, lock_days : WideLockDays, transfer_ok : BOOLEAN]
    \cup [signer : {FALSE}, token_program : {SPL_TOKEN_ID, OTHER_PROGRAM}, amount : {U64(200)}, lock_days : {U64(0)}, transfer_ok : {TRUE}]
    \cup [signer : {TRUE}, token_program : {OTHER_PROGRAM}, amount : {U64(200)}, lock_days : {U64(0)}, transfer_ok : {TRUE}]

\* The position is empty or holds an earlier stake of 1000.
InitStakeOnce ==
    /\ now \in StartTimes
    /\ \E sb \in {Zeros(STAKE_LEN), StakedBuf(now, U64(1000), U64(100))} :
          data = [a \in Accounts |-> IF a \in StakeSlots THEN sb ELSE Zeros(SizeOf(a))]
    /\ engine = StakingContract_new
    /\ overflow_checks \in BOOLEAN
    /\ last = NoOp
    /\ steps = 0
    /\ calc = NoCalc

NextStakeOnce ==
    \E pos \in StakeSlots, c \in WideStakeCalls : steps = 0 /\ Stake(pos, c)

SpecStakeOnce == InitStakeOnce /\ [][NextStakeOnce]_vars

-----------------------------------------------------------------------------
(* A stake_tokens call followed by an unstake_tokens call on one engine instance *)

WideUnstakeCalls ==
    [signer : {TRUE}, token_program : {SPL_TOKEN_ID}, amount : WideAmounts, transfer_ok : BOOLEAN]
    \cup [signer : {FALSE}, token_program : {SPL_TOKEN_ID, OTHER_PROGRAM}, amount : {U64(200)}, transfer_ok : {TRUE}]
    \cup [signer : {TRUE}, token_program : {OTHER_PROGRAM}, amount : {U64(200)}, transfer_ok : {TRUE}]

NextRoundTrip ==
    \/ \E pos \in StakeSlots, c \in WideStakeCalls : steps = 0 /\ Stake(pos, c)
    \/ \E pos \in StakeSlots, c \in WideUnstakeCalls : steps = 1 /\ Unstake(pos, c)

SpecRoundTrip == InitStaking /\ [][NextRoundTrip]_vars

-----------------------------------------------------------------------------
(* redistribute_penalty called repeatedly on an engine instance in mid-life *)

\* Totals an instance can hold between operations: nothing staked, a pool that divides
\* evenly and one that does not, the largest stake and the largest single penalty.
EngineStates ==
    [total_staked : {U64(0), U64(1), U64(7), U64(1000), U64_MAX},
     reward_pool : {U64(15000000), U64(15000100)},
     penalty_pool : {U64(0), U64(1), U64(100), DivSmall(U64_MAX, 100)}]

InitEngine ==
    /\ now \in StartTimes
    /\ data = [a \in Accounts |-> IF a \in StakeSlots THEN StakedBuf(now, U64(1000), U64(100))
                                  ELSE Zeros(SizeOf(a))]
    /\ engine \in EngineStates
    /\ overflow_checks \in BOOLEAN
    /\ last = NoOp
    /\ steps = 0
    /\ calc = [phase |-> "engine", calls |-> 0, start |-> engine, once |-> engine]

\* One more call; calc keeps the totals before the first call and after it.
RedistributeAgain ==
    /\ calc.phase = "engine"
    /\ calc.calls < MaxRedistributeCalls
    /\ LET r == redistribute_penalty(engine, overflow_checks)
       IN  /\ engine' = r.self
           /\ last' = [op |-> "redistribute_penalty", res |-> IF r.panic THEN "Panic" ELSE "Ok"]
           /\ calc' = [calc EXCEPT !.calls = @ + 1,
                                   !.once = IF calc.calls = 0 THEN r.self ELSE @]
    /\ steps' = steps + 1
    /\ UNCHANGED <<data, now, overflow_checks>>

NextEngine == RedistributeAgain

SpecEngine == InitEngine /\ [][NextEngine]_vars

-----------------------------------------------------------------------------
(* get_staked_amount on staking accounts of any content and size *)

\* Account contents: records of several amounts and lock times with the flag byte 0, 1 or
\* another non-zero value, in buffers of Stake::LEN bytes, one byte less, one more, and none.
ReadBufs ==
    { Low(amount \o lock_until \o <<flag>>, n) :
        amount \in {U64(0), U64(1), U64(500), U64(1000), U64_TOP, U64_MAX},
        lock_until \in {U64(0), U64(1708640000)},
        flag \in {0, 1, 2},
        n \in {0, STAKE_LEN - 1, STAKE_LEN, STAKE_LEN + 1} }

InitRead ==
    /\ data = [a \in Accounts |-> Zeros(SizeOf(a))]
    /\ engine = StakingContract_new
    /\ now \in StartTimes
    /\ overflow_checks \in BOOLEAN
    /\ last = NoOp
    /\ steps = 0
    /\ \E buf \in ReadBufs : calc = [phase |-> "read", buf |-> buf, result |-> Err("none")]

GetStakedAmount ==
    /\ calc.phase = "read"
    /\ calc' = [calc EXCEPT !.phase = "read done", !.result = get_staked_amount(calc.buf)]
    /\ UNCHANGED <<data, engine, now, overflow_checks, last, steps>>

NextRead == GetStakedAmount

SpecRead == InitRead /\ [][NextRead]_vars

-----------------------------------------------------------------------------
(* CrossChainBridge *)

\* system_instruction::transfer(from, to, lamports), as handed to invoke_signed
SystemTransfer(from, to, lamports) == [from |-> from, to |-> to, lamports |-> lamports]

\* Outcome of a bridge method: the ProgramResult and the transfers it asked for.
BridgeOutcome(res, transfers) == [res |-> res, transfers |-> transfers]

lock_tokens_for_bridge_unsigned(is_signer, amount, target_chain, transfer_ok) ==
    LET ix == SystemTransfer("sender", "bridge", amount)
    IN  IF ~transfer_ok THEN BridgeOutcome("TransferFailed", <<ix>>)
        ELSE BridgeOutcome("Ok", <<ix>>)

lock_tokens_for_bridge(is_signer, amount, target_chain, transfer_ok) ==
    IF ~is_signer THEN BridgeOutcome("MissingRequiredSignature", <<>>)
    ELSE
    LET ix == SystemTransfer("sender", "bridge", amount)
    IN  IF ~transfer_ok THEN BridgeOutcome("TransferFailed", <<ix>>)
        ELSE BridgeOutcome("Ok", <<ix>>)

\* A release that refuses an attestation of all zero bytes.
release_tokens_attested(amount, target_chain_address, signature, transfer_ok) ==
    LET ix == SystemTransfer("bridge", "recipient", amount)
    IN  IF signature = Zeros(64) THEN BridgeOutcome("InvalidArgument", <<>>)
        ELSE IF ~transfer_ok THEN BridgeOutcome("TransferFailed", <<ix>>)
        ELSE BridgeOutcome("Ok", <<ix>>)

release_tokens_on_target_chain(amount, target_chain_address, signature, transfer_ok) ==
    LET ix == SystemTransfer("bridge", "recipient", amount)
    IN  IF ~transfer_ok THEN BridgeOutcome("TransferFailed", <<ix>>)
        ELSE BridgeOutcome("Ok", <<ix>>)

TargetChains == {"", "ethereum", "polygon"}
TargetAddresses == {"", "0xabc"}
Attestations == {Zeros(64), [i \in 1..64 |-> 255]}

LockCalls ==
    [signer : BOOLEAN, amount : WideAmounts, target_chain : TargetChains, transfer_ok : BOOLEAN]

ReleaseCalls ==
    [signer : BOOLEAN, amount : WideAmounts, target_chain_address : TargetAddresses, signature : Attestations, transfer_ok : BOOLEAN]

LockForBridge(c) ==
    LET o == lock_tokens_for_bridge(c.signer, c.amount, c.target_chain, c.transfer_ok)
    IN  /\ last' = [op |-> "lock_tokens_for_bridge", res |-> o.res, signer |-> c.signer,
                    amount |-> c.amount, target_chain |-> c.target_chain,
                    transfer_ok |-> c.transfer_ok, transfers |-> o.transfers]
        /\ steps' = steps + 1
        /\ UNCHANGED <<data, engine, now, overflow_checks, calc>>

ReleaseOnTarget(c) ==
    LET o == release_tokens_on_target_chain(c.amount, c.target_chain_address, c.signature, c.transfer_ok)
    IN  /\ last' = [op |-> "release_tokens_on_target_chain", res |-> o.res, signer |-> c.signer,
                    amount |-> c.amount, target_chain_address |-> c.target_chain_address,
                    signature |-> c.signature,
                    transfer_ok |-> c.transfer_ok, transfers |-> o.transfers]
        /\ steps' = steps + 1
        /\ UNCHANGED <<data, engine, now, overflow_checks, calc>>

NextBridge ==
    \/ \E c \in LockCalls : steps < MaxBridgeSteps /\ LockForBridge(c)
    \/ \E c \in ReleaseCalls : steps < MaxBridgeSteps /\ ReleaseOnTarget(c)

SpecBridge == InitStaking /\ [][NextBridge]_vars

-----------------------------------------------------------------------------
(* The record codecs on their own: pack into a buffer of LEN bytes, then unpack *)

StakeValues ==
    [amount : {U64(0), U64(500), U64_TOP, U64_MAX},
     lock_until : {U64(0), U64(1700000000), U64_MAX},
     is_initialized : BOOLEAN]

VoteValues ==
    [proposal : {PubkeyOf(33), ADMIN_PUBKEY}, voter : {ALICE, BOB}, vote : BOOLEAN,
     weight : {U64(0), U64(200), U64_MAX}, is_initialized : BOOLEAN]

\* Descriptions up to the longest that fits: 4 + 254 + 42 = 300.  195, 169 is a
\* two-byte character.
CodecDescriptions ==
    {<<>>, <<70, 117, 110, 100>>, <<195, 169>>, [i \in 1..253 |-> 97], [i \in 1..254 |-> 97]}

ProposalValues ==
    [description : CodecDescriptions, proposer : {ALICE}, active : BOOLEAN,
     timestamp : {U64(0), U64(1700000000)}, is_initialized : BOOLEAN]

CodecInputs ==
    ([kind : {"Stake"}, record : StakeValues] \cup [kind : {"Vote"}, record : VoteValues])
    \cup [kind : {"Proposal"}, record : ProposalValues]

LenOf(kind) == IF kind = "Stake" THEN STAKE_LEN ELSE IF kind = "Vote" THEN VOTE_LEN ELSE PROPOSAL_LEN

pack_into_slice(kind, record, dst) ==
    IF kind = "Stake" THEN Stake_pack_into_slice(record, dst)
    ELSE IF kind = "Vote" THEN Vote_pack_into_slice(record, dst)
    ELSE Proposal_pack_into_slice(record, dst)

unpack_from_slice(kind, src) ==
    IF kind = "Stake" THEN Stake_unpack_from_slice(src)
    ELSE IF kind = "Vote" THEN Vote_unpack_from_slice(src)
    ELSE Proposal_unpack_from_slice(src)

InitCodec ==
    /\ data = [a \in Accounts |-> Zeros(SizeOf(a))]
    /\ engine = StakingContract_new
    /\ now \in StartTimes
    /\ overflow_checks \in BOOLEAN
    /\ last = NoOp
    /\ steps = 0
    /\ \E c \in CodecInputs :
          calc = [phase |-> "codec", kind |-> c.kind, record |-> c.record,
                  encoded |-> <<>>, decoded |-> Err("none")]

\* The record is packed into a zeroed buffer of its type's LEN bytes and unpacked from it.
EncodeDecode ==
    /\ calc.phase = "codec"
    /\ LET packed == pack_into_slice(calc.kind, calc.record, Zeros(LenOf(calc.kind)))
       IN  calc' = [calc EXCEPT
                      !.phase = "codec done",
                      !.encoded = packed.buf,
                      !.decoded = IF packed.panic THEN Err("Panic")
                                  ELSE unpack_from_slice(calc.kind, packed.buf)]
    /\ UNCHANGED <<data, engine, now, overflow_checks, last, steps>>

NextCodec == EncodeDecode

SpecCodec == InitCodec /\ [][NextCodec]_vars

-----------------------------------------------------------------------------
(* Proposal::unpack_from_slice on buffers of any size and declared description length *)

\* The declared lengths: around what fits each buffer size, and two beyond any buffer.
DeclaredLengths ==
    {LeBytes(v, 4) : v \in {0, 1, 2, 3, 41, 54, 58, 59, 254, 255, 258, 259, 260, 296, 297, 65536}}
    \cup {<<0, 0, 0, 128>>}

\* A length prefix followed by bytes of text (97) or bytes that are no text (255), cut to size.
DecodeBufs ==
    { Low(declared \o [i \in 1..296 |-> fill], n) :
        declared \in DeclaredLengths, fill \in {97, 255}, n \in {0, 4, 44, 45, 46, 100, PROPOSAL_LEN} }

InitDecode ==
    /\ data = [a \in Accounts |-> Zeros(SizeOf(a))]
    /\ engine = StakingContract_new
    /\ now \in StartTimes
    /\ overflow_checks \in BOOLEAN
    /\ last = NoOp
    /\ steps = 0
    /\ \E buf \in DecodeBufs : calc = [phase |-> "decode", buf |-> buf, decoded |-> Err("none")]

DecodeProposal ==
    /\ calc.phase = "decode"
    /\ calc' = [calc EXCEPT !.phase = "decode done",
                            !.decoded = Proposal_unpack_from_slice(calc.buf)]
    /\ UNCHANGED <<data, engine, now, overflow_checks, last, steps>>

NextDecode == DecodeProposal

SpecDecode == InitDecode /\ [][NextDecode]_vars

-----------------------------------------------------------------------------
(* process_instruction: the staking and voting opcodes, each on an engine of its own *)

parse_amount(d) ==
    IF Len(d) < 8 THEN Err("InvalidInstructionData") ELSE Ok(SubSeq(d, 1, 8))

\* The instance an invocation works on, given the one the invocation before it left
\* behind: `StakingContract::new()`, a local of the match arm.
dispatcher_engine_kept(previous) == previous
dispatcher_engine(previous) == StakingContract_new

\* The first byte of the instruction data; -1 when there is none.
OpcodeOf(ix) == IF Len(ix) = 0 THEN -1 ELSE ix[1]

\* Instruction data: the opcode byte, then the arguments.
Instructions ==
    {<<3>> \o amount \o U64(100) : amount \in {U64(200), U64(1000)}}
    \cup {<<4>> \o amount : amount \in {U64(200), U64(1000)}}
    \cup {<<7>> \o U64(0) \o <<1>>, <<7>> \o U64(0)}
    \cup {<<3>> \o U64(200), <<4, 200>>, <<11>>, <<>>}

DispatchCalls ==
    [ix : Instructions, signer : {TRUE}, token_program : {SPL_TOKEN_ID}, caller : {ALICE}, transfer_ok : BOOLEAN]

\* The proposal slot as a successful create_proposal leaves it.
OpenProposalBuf(clock) ==
    create_proposal(Zeros(PROPOSAL_LEN), clock, TRUE, ALICE, <<70, 117, 110, 100>>).buf

InitDispatch ==
    /\ now \in StartTimes
    /\ \E sb \in {Zeros(STAKE_LEN), StakedBuf(now, U64(1000), U64(100))} :
          data = [a \in Accounts |-> IF a \in StakeSlots THEN sb
                                     ELSE IF a \in ProposalSlots THEN OpenProposalBuf(now)
                                     ELSE Zeros(SizeOf(a))]
    /\ engine = StakingContract_new
    /\ overflow_checks \in BOOLEAN
    /\ last = NoOp
    /\ steps = 0
    /\ calc = NoCalc

\* A rejected instruction: no method is called and no instance is constructed.
Rejected(c) ==
    /\ last' = [op |-> "process_instruction", res |-> "InvalidInstructionData", ix |-> c.ix]
    /\ UNCHANGED <<data, engine>>

\* Opcode 3: amount and lock period are parsed, then stake_tokens runs on a new instance.
DispatchStake(pos, c) ==
    /\ OpcodeOf(c.ix) = 3
    /\ LET rest == Tail(c.ix)
           amount == parse_amount(rest)
           lock_period_in_days == parse_amount(SubSeq(rest, 9, Len(rest)))
       IN  IF ~amount.ok \/ ~lock_period_in_days.ok THEN Rejected(c)
           ELSE LET o == stake_tokens(dispatcher_engine(engine), data[pos], now, overflow_checks, c.signer, c.token_program, amount.val, lock_period_in_days.val, c.transfer_ok)
                IN  /\ data' = [data EXCEPT ![pos] = o.buf]
                    /\ engine' = o.self
                    /\ last' = [op |-> "stake_tokens", res |-> o.res, pos |-> pos, before |-> data[pos],
                                ix |-> c.ix, signer |-> c.signer, token_program |-> c.token_program,
                                amount |-> amount.val, lock_days |-> lock_period_in_days.val,
                                transfer_ok |-> c.transfer_ok, transfers |-> o.transfers]
    /\ steps' = steps + 1
    /\ UNCHANGED <<now, overflow_checks, calc>>

\* Opcode 4: the amount is parsed, then unstake_tokens runs on a new instance.
DispatchUnstake(pos, c) ==
    /\ OpcodeOf(c.ix) = 4
    /\ LET amount == parse_amount(Tail(c.ix))
       IN  IF ~amount.ok THEN Rejected(c)
           ELSE LET o == unstake_tokens(dispatcher_engine(engine), data[pos], now, overflow_checks, c.signer, c.token_program, amount.val, c.transfer_ok)
                IN  /\ data' = [data EXCEPT ![pos] = o.buf]
                    /\ engine' = o.self
                    /\ last' = [op |-> "unstake_tokens", res |-> o.res, pos |-> pos, before |-> data[pos],
                                ix |-> c.ix, signer |-> c.signer, token_program |-> c.token_program,
                                amount |-> amount.val,
                                transfer_ok |-> c.transfer_ok, transfers |-> o.transfers]
    /\ steps' = steps + 1
    /\ UNCHANGED <<now, overflow_checks, calc>>

\* Opcode 7: the proposal id is parsed, the byte after it is the ballot (absent: against),
\* and vote_on_proposal reads the weight through a new instance.
DispatchVote(vpos, ppos, spos, c) ==
    /\ OpcodeOf(c.ix) = 7
    /\ LET rest == Tail(c.ix)
           proposal_id == parse_amount(rest)
           vote == Len(rest) >= 9 /\ rest[9] = 1
       IN  IF ~proposal_id.ok THEN Rejected(c)
           ELSE LET o == vote_on_proposal(data[vpos], data[ppos], data[spos], c.signer, c.caller, KeyOf(ppos), vote)
                IN  /\ data' = [data EXCEPT ![vpos] = o.buf]
                    /\ engine' = IF c.signer /\ Open(data[ppos]) THEN dispatcher_engine(engine) ELSE engine
                    /\ last' = [op |-> "vote_on_proposal", res |-> o.res, pos |-> vpos, before |-> data[vpos],
                                ix |-> c.ix, signer |-> c.signer, caller |-> c.caller, proposal |-> ppos,
                                staking |-> spos, in_favor |-> vote]
    /\ steps' = steps + 1
    /\ UNCHANGED <<now, overflow_checks, calc>>

\* No instruction data, or an opcode that is not handled.
DispatchInvalid(c) ==
    /\ OpcodeOf(c.ix) \notin 0..10
    /\ Rejected(c)
    /\ steps' = steps + 1
    /\ UNCHANGED <<now, overflow_checks, calc>>

NextDispatch ==
    \/ \E pos \in StakeSlots, c \in DispatchCalls : steps < MaxDispatchSteps /\ DispatchStake(pos, c)
    \/ \E pos \in StakeSlots, c \in DispatchCalls : steps < MaxDispatchSteps /\ DispatchUnstake(pos, c)
    \/ \E vpos \in VoteSlots, ppos \in ProposalSlots, spos \in StakeSlots, c \in DispatchCalls :
          steps < MaxDispatchSteps /\ DispatchVote(vpos, ppos, spos, c)
    \/ \E c \in DispatchCalls : steps < MaxDispatchSteps /\ DispatchInvalid(c)

SpecDispatch == InitDispatch /\ [][NextDispatch]_vars

-----------------------------------------------------------------------------
(* Votes weighed by staking positions of every shape *)

\* Staking positions that Stake::unpack refuses: no data, one byte short of a record, a
\* zeroed record, a record of 200 whose initialized flag is clear, one byte too many.
UndecodableStakes(clock) ==
    {<<>>, Zeros(STAKE_LEN - 1), Zeros(STAKE_LEN), U64(200) \o clock \o <<0>>,
     StakedBuf(clock, U64(200), U64(100)) \o <<0>>}

InitVote ==
    /\ now \in StartTimes
    /\ \E sb \in UndecodableStakes(now) \cup {StakedBuf(now, U64(200), U64(100))} :
          data = [a \in Accounts |-> IF a \in StakeSlots THEN sb
                                     ELSE IF a \in ProposalSlots THEN OpenProposalBuf(now)
                                     ELSE Zeros(SizeOf(a))]
    /\ engine = StakingContract_new
    /\ overflow_checks \in BOOLEAN
    /\ last = NoOp
    /\ steps = 0
    /\ calc = NoCalc

NextVote ==
    \E vpos \in VoteSlots, ppos \in ProposalSlots, spos \in StakeSlots, c \in VoteCalls :
       steps < MaxVoteSteps /\ Vote(vpos, ppos, spos, c)

SpecVote == InitVote /\ [][NextVote]_vars

-----------------------------------------------------------------------------
(* create_proposal with descriptions around the capacity of the record *)

\* A description of n bytes of ASCII text.
TextOf(n) == [i \in 1..n |-> 97]

\* 254 bytes is the longest description that fits with the 46 bytes of the other fields.
DescriptionLengths == {4, 254, 255, 256, 263, 296, 297, 300}

LongCreateCalls ==
    [signer : {TRUE}, caller : {ALICE, BOB}, description : {TextOf(n) : n \in DescriptionLengths}]
    \cup [signer : {FALSE}, caller : {ALICE}, description : {TextOf(255)}]

NextCreate ==
    \/ \E pos \in ProposalSlots, c \in LongCreateCalls : steps < MaxCreateSteps /\ CreateProposal(pos, c)
    \/ \E pos \in ProposalSlots, c \in LedgerExecuteCalls : steps < MaxCreateSteps /\ ExecuteProposal(pos, c)

SpecCreate == InitStaking /\ [][NextCreate]_vars

-----------------------------------------------------------------------------
(* One engine over stakes and unstakes whose transfers all succeed *)

SumStakeCalls ==
    [signer : {TRUE}, token_program : {SPL_TOKEN_ID}, amount : {U64(200), U64(1000)}, lock_days : LockDays, transfer_ok : {TRUE}]
    \cup [signer : {FALSE}, token_program : {SPL_TOKEN_ID}, amount : {U64(200)}, lock_days : {U64(0)}, transfer_ok : {TRUE}]

SumUnstakeCalls ==
    [signer : {TRUE}, token_program : {SPL_TOKEN_ID}, amount : {U64(200), U64(800), U64(1000)}, transfer_ok : {TRUE}]
    \cup [signer : {FALSE}, token_program : {SPL_TOKEN_ID}, amount : {U64(200)}, transfer_ok : {TRUE}]

NextSum ==
    \/ \E pos \in StakeSlots, c \in SumStakeCalls : steps < MaxSumSteps /\ Stake(pos, c)
    \/ \E pos \in StakeSlots, c \in SumUnstakeCalls : steps < MaxSumSteps /\ Unstake(pos, c)

SpecSum == InitStaking /\ [][NextSum]_vars

-----------------------------------------------------------------------------
(* Ballots of several voters on one proposal *)

\* Two vote accounts with room for the five fields of a Vote.
BallotSlots == {"vote2", "vote3"}

InitTally ==
    /\ now \in StartTimes
    /\ \E sb \in {Zeros(STAKE_LEN), StakedBuf(now, U64(200), U64(100)), StakedBuf(now, U64(1000), U64(0))} :
          data = [a \in Accounts \cup BallotSlots |->
                     IF a \in StakeSlots THEN sb
                     ELSE IF a \in ProposalSlots THEN OpenProposalBuf(now)
                     ELSE Zeros(SizeOf(a))]
    /\ engine = StakingContract_new
    /\ overflow_checks \in BOOLEAN
    /\ last = NoOp
    /\ steps = 0
    /\ calc = NoCalc

NextTally ==
    \/ \E vpos \in BallotSlots, ppos \in ProposalSlots, spos \in StakeSlots, c \in VoteCalls :
          steps < MaxTallySteps /\ Vote(vpos, ppos, spos, c)
    \/ \E pos \in ProposalSlots, c \in LedgerExecuteCalls : steps < MaxTallySteps /\ ExecuteProposal(pos, c)

SpecTally == InitTally /\ [][NextTally]_vars

-----------------------------------------------------------------------------
(* Properties of the staking engine *)

\* C1: an unstake that asks for more than the position holds changes nothing: the
\* ledger and the engine's totals stay as they are, no transfer is requested, and the
\* call fails, with InsufficientFunds once its signer and token-program checks pass.
C1_InsufficientFundsNoEffect ==
    [][\A pos \in StakeSlots :
          ( /\ last'.op = "unstake_tokens"
            /\ last'.pos = pos
            /\ Stake_unpack(data[pos]).ok
            /\ LtU(AmountOf(data[pos]), last'.amount) )
          => /\ data' = data
             /\ engine' = engine
             /\ last'.transfers = <<>>
             /\ last'.res # "Ok"
             /\ (last'.signer /\ last'.token_program = SPL_TOKEN_ID
                    => last'.res = "InsufficientFunds")]_vars

\* An unstake of 1000 from a position holding 200 has been refused.
C1_Witness ==
    /\ last.op = "unstake_tokens"
    /\ last.res = "InsufficientFunds"
    /\ last.amount = U64(1000)
    /\ AmountOf(data[last.pos]) = U64(200)
    /\ Stake_unpack(data[last.pos]).ok

\* The tier the specification gives for `offset` seconds of lock remaining.
TierOf(offset) ==
    IF offset <= 0 THEN 0
    ELSE LET r == offset \div 86400
         IN  IF r > 90 THEN 10 ELSE IF r > 30 THEN 7 ELSE 5

\* C2: the penalty percentage is 0 once now >= lock_until, and otherwise follows
\* r = (lock_until - now) / 86400: 10 if r > 90, 7 if 30 < r <= 90, 5 if r <= 30.
C2_PenaltyTiers ==
    calc.phase = "done" => calc.penalty = TierOf(calc.offset)

\* The computation has run for r = 90 exactly (one second short of 91 days): 7%.
C2_Witness ==
    /\ calc.phase = "done"
    /\ calc.offset = 90 * 86400 + 86399
    /\ calc.penalty = 7

\* C3 as stated: remaining-lock-days r = 0 is charged 0%, like an expired lock.
C3_ZeroDaysFree ==
    (calc.phase = "done" /\ (calc.offset <= 0 \/ calc.offset \div 86400 = 0))
        => calc.penalty = 0

\* C3 as amended: with r = 0 and the lock not yet expired (0 < lock_until - now < 86400)
\* the penalty is the 5% of the lowest tier; it is 0% only once now >= lock_until.
C3_LastDayCharged ==
    calc.phase = "done" =>
        /\ (calc.offset > 0 /\ calc.offset < 86400 => calc.penalty = 5)
        /\ (calc.offset <= 0 => calc.penalty = 0)

\* The computation has run one second before the lock expires.
C3_Witness ==
    /\ calc.phase = "done"
    /\ calc.offset = 1
    /\ calc.penalty = 5

\* floor(amount * pct / 100) without any width limit, as 11 bytes.
ExactPenalty(amount, pct) == DivSmall(MulSmall(amount, pct), 100)

\* C4: for every u64 amount and every tier, penalty_amount = floor(amount * pct / 100)
\* and final_amount = amount - penalty_amount exactly, without wrap-around or abort.
C4_PenaltyExact ==
    calc.phase = "done" =>
        /\ ~calc.panic
        /\ calc.penalty_amount = Low(ExactPenalty(calc.amount, calc.penalty), 8)
        /\ LeU(calc.penalty_amount, calc.amount)
        /\ AddBytes(calc.penalty_amount, calc.final_amount) = calc.amount \o <<0>>

\* C5 as stated: a position's stored amount decreases only in a successful unstake whose
\* requested amount did not exceed the amount stored before it.
C5_OnlyUnstakeLowers ==
    [][\A pos \in StakeSlots :
          LtU(AmountOf(data'[pos]), AmountOf(data[pos]))
          => /\ last'.op = "unstake_tokens"
             /\ last'.res = "Ok"
             /\ LeU(last'.amount, AmountOf(data[pos]))]_vars

\* C5 as amended: a position's stored amount decreases only in an unstake that passed its
\* checks with a requested amount not above the stored one (whether or not its transfer
\* then succeeds), or in a stake that overwrites the record with a smaller amount.
C5_UnstakeOrOverwriteLowers ==
    [][\A pos \in StakeSlots :
          LtU(AmountOf(data'[pos]), AmountOf(data[pos]))
          => \/ /\ last'.op = "unstake_tokens"
                /\ last'.res \in {"Ok", "TransferFailed", "Panic"}
                /\ LeU(last'.amount, AmountOf(data[pos]))
             \/ /\ last'.op = "stake_tokens"
                /\ last'.signer /\ last'.token_program = SPL_TOKEN_ID
                /\ AmountOf(data'[pos]) = last'.amount]_vars

\* A stake of 200 has overwritten a position that held 1000.
C5_Witness ==
    /\ last.op = "stake_tokens"
    /\ last.res = "Ok"
    /\ AmountOf(last.before) = U64(1000)
    /\ AmountOf(data[last.pos]) = U64(200)

\* now + lock_days * 86400 without any width limit, as 12 bytes.
ExactLockUntil(clock, lock_days) ==
    AddBytes(Low(clock, 11), MulSmall(lock_days, SECONDS_PER_DAY))

\* C12: a stake that passes its signer and token-program checks leaves in the position
\* exactly Stake{amount, lock_until = now + lock_days * 86400, initialized = true},
\* whatever the position held: the stored amount is the argument, not a sum.
C12_StakeOverwrites ==
    [][\A pos \in StakeSlots :
          ( /\ last'.op = "stake_tokens"
            /\ last'.pos = pos
            /\ last'.signer
            /\ last'.token_program = SPL_TOKEN_ID )
          => LET exact == ExactLockUntil(now, last'.lock_days)
             IN  /\ FitsBytes(exact, 8) /\ ~IsNeg(Low(exact, 8))
                 /\ data'[pos] = last'.amount \o Low(exact, 8) \o <<1>>]_vars

\* C13: a successful unstake lowers the stored amount by the whole amount asked for,
\* leaves lock_until and the initialized flag as they were, requests one transfer of
\* final_amount = amount - penalty_amount from the pool to the staker, lowers total_staked
\* by amount (stopping at 0) and adds penalty_amount to penalty_pool, and only then does
\* the redistribution act on those totals.
C13_UnstakeEffects ==
    [][\A pos \in StakeSlots :
          (last'.op = "unstake_tokens" /\ last'.pos = pos /\ last'.res = "Ok")
          => LET amount == NatOf(last'.amount)
                 stored == NatOf(AmountOf(data[pos]))
                 pct == TierOf(NatOf(SubSeq(data[pos], 9, 16)) - NatOf(now))
                 penalty_amount == (amount * pct) \div 100
                 total == NatOf(engine.total_staked)
                 lowered == IF total < amount THEN 0 ELSE total - amount
                 pool == NatOf(engine.penalty_pool) + penalty_amount
                 reward == NatOf(engine.reward_pool)
             IN  /\ AmountOf(data'[pos]) = U64(stored - amount)
                 /\ SubSeq(data'[pos], 9, 17) = SubSeq(data[pos], 9, 17)
                 /\ data'[pos][17] = 1
                 /\ last'.transfers = <<Transfer("pool", "staker", U64(amount - penalty_amount))>>
                 /\ engine'.total_staked = U64(lowered)
                 /\ IF lowered = 0 \/ pool = 0
                    THEN engine'.penalty_pool = U64(pool) /\ engine'.reward_pool = U64(reward)
                    ELSE engine'.penalty_pool = U64(0) /\ engine'.reward_pool = U64(reward + pool)]_vars

\* The whole of a position of 1000 locked for 100 days has been unstaked: 900 were sent,
\* and the record is still there, initialized, with amount 0.
C13_Witness ==
    /\ last.op = "unstake_tokens"
    /\ last.res = "Ok"
    /\ last.amount = U64(1000)
    /\ last.transfers = <<Transfer("pool", "staker", U64(900))>>
    /\ AmountOf(last.before) = U64(1000)
    /\ AmountOf(data[last.pos]) = U64(0)
    /\ Stake_unpack(data[last.pos]).ok

\* C14: on one engine instance, stake(a, 100 days) followed at once by unstake(a), both
\* succeeding, is charged 10%: a - floor(a * 10 / 100) is sent to the staker, penalty_pool
\* grows by floor(a * 10 / 100) and total_staked is back at its value before the stake.
C14_StakeThenUnstake ==
    [][\A pos \in StakeSlots :
          ( /\ last.op = "stake_tokens" /\ last.res = "Ok" /\ last.pos = pos
            /\ last.lock_days = U64(100)
            /\ last'.op = "unstake_tokens" /\ last'.res = "Ok" /\ last'.pos = pos
            /\ last'.amount = last.amount )
          => LET a == last.amount
                 penalty_amount == Low(ExactPenalty(a, 10), 8)
             IN  /\ last'.transfers = <<Transfer("pool", "staker", SubBytes(a, penalty_amount))>>
                 /\ engine'.penalty_pool = Low(AddBytes(engine.penalty_pool, penalty_amount), 8)
                 /\ engine'.total_staked = SubBytes(engine.total_staked, a)]_vars

\* C15: redistribute_penalty changes nothing when total_staked or penalty_pool is 0;
\* otherwise it adds the whole penalty_pool, remainder of the division included, to
\* reward_pool and sets penalty_pool to 0; total_staked and the stake records stay.
C15_Redistribution ==
    [][last'.op = "redistribute_penalty"
          => /\ data' = data
             /\ engine'.total_staked = engine.total_staked
             /\ IF engine.total_staked = U64(0) \/ engine.penalty_pool = U64(0)
                THEN engine' = engine
                ELSE /\ engine'.reward_pool \o <<0>> = AddBytes(engine.reward_pool, engine.penalty_pool)
                     /\ engine'.penalty_pool = U64(0)]_vars

\* A pool of 100 over 7 staked, which does not divide evenly, has gone to reward_pool whole.
C15_Witness ==
    /\ last.op = "redistribute_penalty"
    /\ calc.phase = "engine"
    /\ calc.calls = 1
    /\ calc.start.total_staked = U64(7)
    /\ calc.start.penalty_pool = U64(100)
    /\ calc.start.reward_pool = U64(15000000)
    /\ engine = [total_staked |-> U64(7), reward_pool |-> U64(15000100), penalty_pool |-> U64(0)]

\* C16: a second redistribute_penalty right after the first changes nothing: the totals
\* after two calls are the totals after one.
C16_RedistributeIdempotent ==
    (calc.phase = "engine" /\ calc.calls >= 2) => engine = calc.once

\* Two calls have been made on an instance whose first call moved a pool.
C16_Witness ==
    /\ calc.phase = "engine"
    /\ calc.calls = 2
    /\ calc.once # calc.start
    /\ engine = calc.once

\* The account holds a Stake record that decodes: exactly Stake::LEN bytes, flag set.
Decodes(buf) == Len(buf) = STAKE_LEN /\ buf[STAKE_LEN] # 0

C18_StakeWriteNotRolledBack ==
    [][\A pos \in StakeSlots :
          ( /\ last'.op = "stake_tokens" /\ last'.pos = pos
            /\ last'.signer /\ last'.token_program = SPL_TOKEN_ID
            /\ ~last'.transfer_ok )
          => /\ last'.res = "TransferFailed"
             /\ last'.transfers = <<Transfer("staker", "pool", last'.amount)>>
             /\ data'[pos] = last'.amount
                             \o U64(NatOf(now) + NatOf(last'.lock_days) * 86400) \o <<1>>
             /\ engine' = engine]_vars

\* A stake of 200 whose transfer failed has replaced a record of 1000, and total_staked
\* is still the 1000 of the earlier stake.
C18_Witness ==
    /\ last.op = "stake_tokens"
    /\ last.res = "TransferFailed"
    /\ AmountOf(last.before) = U64(1000)
    /\ AmountOf(data[last.pos]) = U64(200)
    /\ engine.total_staked = U64(1000)

\* C19: stake and unstake test the signer first and the token program second: unsigned
\* they fail with MissingRequiredSignature whatever the token program, signed with
\* another token program they fail with InvalidAccountData, and either way the position,
\* the engine's totals and the token program are left alone.
C19_SignerThenTokenProgram ==
    [][last'.op \in {"stake_tokens", "unstake_tokens"}
          => /\ ~last'.signer
                  => /\ last'.res = "MissingRequiredSignature"
                     /\ data' = data /\ engine' = engine /\ last'.transfers = <<>>
             /\ (last'.signer /\ last'.token_program # SPL_TOKEN_ID)
                  => /\ last'.res = "InvalidAccountData"
                     /\ data' = data /\ engine' = engine /\ last'.transfers = <<>>]_vars

\* An unsigned stake naming another token program has been refused for the missing
\* signature, on a position that holds a stake.
C19_Witness ==
    /\ last.op = "stake_tokens"
    /\ ~last.signer
    /\ last.token_program = OTHER_PROGRAM
    /\ last.res = "MissingRequiredSignature"
    /\ Stake_unpack(data[last.pos]).ok
    /\ data[last.pos] = last.before

\* C27: unstake writes the lowered record and updates total_staked and penalty_pool
\* before it asks for the pool-to-staker transfer, and redistributes only after the
\* transfer: an unstake whose transfer fails returns the failure with the record lowered
\* by amount, total_staked lowered, the penalty added to penalty_pool, and reward_pool
\* as it was.
C27_UnstakeNoRollback ==
    [][\A pos \in StakeSlots :
          (last'.op = "unstake_tokens" /\ last'.pos = pos)
          => /\ ( /\ last'.signer
                  /\ last'.token_program = SPL_TOKEN_ID
                  /\ Stake_unpack(data[pos]).ok
                  /\ ~LtU(AmountOf(data[pos]), last'.amount)
                  /\ ~last'.transfer_ok
                  /\ last'.res # "Panic" )
                => last'.res = "TransferFailed"
             /\ last'.res = "TransferFailed"
                => LET amount == NatOf(last'.amount)
                       pct == TierOf(NatOf(SubSeq(data[pos], 9, 16)) - NatOf(now))
                       penalty_amount == (amount * pct) \div 100
                       total == NatOf(engine.total_staked)
                   IN  /\ ~last'.transfer_ok
                       /\ last'.transfers = <<Transfer("pool", "staker", U64(amount - penalty_amount))>>
                       /\ NatOf(AmountOf(data'[pos])) = NatOf(AmountOf(data[pos])) - amount
                       /\ SubSeq(data'[pos], 9, 17) = SubSeq(data[pos], 9, 17)
                       /\ NatOf(engine'.total_staked) = (IF total < amount THEN 0 ELSE total - amount)
                       /\ NatOf(engine'.penalty_pool) = NatOf(engine.penalty_pool) + penalty_amount
                       /\ engine'.reward_pool = engine.reward_pool]_vars

\* An unstake of 200 from a locked position of 1000 has lost its transfer: the record
\* holds 800, total_staked is 800 and the penalty of 20 waits in penalty_pool.
C27_Witness ==
    /\ last.op = "unstake_tokens"
    /\ last.res = "TransferFailed"
    /\ AmountOf(last.before) = U64(1000)
    /\ AmountOf(data[last.pos]) = U64(800)
    /\ engine.total_staked = U64(800)
    /\ engine.penalty_pool = U64(20)
    /\ engine.reward_pool = U64(15000000)

\* The sum of the amounts stored in the staking positions.
RECURSIVE SumStored(_, _)
SumStored(d, slots) ==
    IF slots = {} THEN 0
    ELSE LET a == CHOOSE x \in slots : TRUE
         IN  NatOf(AmountOf(d[a])) + SumStored(d, slots \ {a})

\* C29: on one engine, from empty positions and with every transfer succeeding,
\* total_staked equals the sum of the amounts stored in the staking positions.
C29_TotalIsSum ==
    NatOf(engine.total_staked) = SumStored(data, StakeSlots)

\* C29, as the code has it: a successful stake raises total_staked by its amount and
\* replaces the amount the position held, so total_staked exceeds the sum by the amounts
\* that stakes have overwritten; every other stake and unstake keeps the difference, and
\* the two are equal as long as every stake goes into a position holding 0.
C29_TotalIsSumPlusOverwritten ==
    [][\A pos \in StakeSlots :
          (last'.op \in {"stake_tokens", "unstake_tokens"} /\ last'.pos = pos)
          => NatOf(engine'.total_staked) - SumStored(data', StakeSlots)
               = (NatOf(engine.total_staked) - SumStored(data, StakeSlots))
                 + (IF last'.op = "stake_tokens" /\ last'.res = "Ok"
                    THEN NatOf(AmountOf(data[pos])) ELSE 0)]_vars

\* A stake of 1000 has replaced a position of 200: total_staked is 1200, the sum 1000.
C29_Witness ==
    /\ last.op = "stake_tokens"
    /\ last.res = "Ok"
    /\ AmountOf(last.before) = U64(200)
    /\ engine.total_staked = U64(1200)
    /\ SumStored(data, StakeSlots) = 1000

\* C30: reward_pool is at least 15,000,000 and never decreases, and reward_pool +
\* penalty_pool grows by exactly the penalty_amount of each unstake that passes the
\* InsufficientFunds check and by nothing else: it is 15,000,000 plus the sum of those
\* penalties, which only ever move from penalty_pool to reward_pool.
C30_PoolsConserved ==
    [][LET pools == NatOf(engine.reward_pool) + NatOf(engine.penalty_pool)
           pools_after == NatOf(engine'.reward_pool) + NatOf(engine'.penalty_pool)
           passed == /\ last'.op = "unstake_tokens"
                     /\ last'.signer
                     /\ last'.token_program = SPL_TOKEN_ID
                     /\ Stake_unpack(data[last'.pos]).ok
                     /\ ~LtU(AmountOf(data[last'.pos]), last'.amount)
       IN  /\ NatOf(engine'.reward_pool) >= NatOf(engine.reward_pool)
           /\ NatOf(engine.reward_pool) >= 15000000
           /\ NatOf(engine'.reward_pool) >= 15000000
           /\ ~passed => pools_after = pools
           /\ passed
                => LET pct == TierOf(NatOf(SubSeq(data[last'.pos], 9, 16)) - NatOf(now))
                   IN  pools_after = pools + (NatOf(last'.amount) * pct) \div 100]_vars

\* The penalty of 20 on an unstake of 200 from a locked 1000 has reached reward_pool.
C30_Witness ==
    /\ last.op = "unstake_tokens"
    /\ last.res = "Ok"
    /\ last.amount = U64(200)
    /\ engine.total_staked = U64(800)
    /\ engine.reward_pool = U64(15000020)
    /\ engine.penalty_pool = U64(0)

-----------------------------------------------------------------------------
(* Properties of the governance engine *)

Privileged == {ADMIN_PUBKEY, GOVERNANCE_PUBKEY}

\* C6: the active flag stored in a proposal slot never goes from false back to true, and
\* goes from true to false only in a successful execute_proposal (hence at most once).
C6_ActiveOneWay ==
    [][\A p \in ProposalSlots :
          /\ Closed(data[p]) => ~Open(data'[p])
          /\ (Open(data[p]) /\ Closed(data'[p]))
                => (last'.op = "execute_proposal" /\ last'.res = "Ok")]_vars

\* C7: execute_proposal by a privileged signer closes an open proposal, changing nothing
\* else in the record, and on a closed proposal fails with InvalidArgument and leaves the
\* ledger as it is.
C7_ExecuteOnce ==
    [][\A p \in ProposalSlots :
          ( /\ last'.op = "execute_proposal"
            /\ last'.pos = p
            /\ last'.signer
            /\ last'.caller \in Privileged )
          => /\ Open(data[p]) =>
                  /\ last'.res = "Ok"
                  /\ Proposal_unpack(data'[p]).ok
                  /\ Proposal_unpack(data'[p]).val
                        = [Proposal_unpack(data[p]).val EXCEPT !.active = FALSE]
             /\ Closed(data[p]) =>
                  /\ last'.res = "InvalidArgument"
                  /\ data' = data]_vars

\* A privileged signer's execution has been refused on a proposal that is closed.
C7_Witness ==
    /\ last.op = "execute_proposal"
    /\ last.signer
    /\ last.caller \in Privileged
    /\ last.res = "InvalidArgument"
    /\ Closed(data[last.pos])
    /\ Closed(last.before)

\* C8: execute_proposal fails with IllegalOwner for any authority other than ADMIN and
\* GOVERNANCE, signed or not, and with MissingRequiredSignature for a privileged authority
\* that did not sign, the ledger unchanged in both cases; a proposal is closed only by a
\* privileged signer.
C8_ExecuteAuthorityGated ==
    [][\A p \in ProposalSlots :
          (last'.op = "execute_proposal" /\ last'.pos = p)
          => /\ last'.caller \notin Privileged
                  => (last'.res = "IllegalOwner" /\ data' = data)
             /\ (last'.caller \in Privileged /\ ~last'.signer)
                  => (last'.res = "MissingRequiredSignature" /\ data' = data)
             /\ (Open(data[p]) /\ ~Open(data'[p]))
                  => (last'.caller \in Privileged /\ last'.signer)]_vars

\* An ordinary user who signed has been refused on an open proposal.
C8_Witness ==
    /\ last.op = "execute_proposal"
    /\ last.caller = ALICE
    /\ last.signer
    /\ last.res = "IllegalOwner"
    /\ Open(data[last.pos])

\* C9: vote on a closed proposal fails, with InvalidArgument when the voter signed, and
\* writes nothing.
C9_VoteOnClosedRejected ==
    [][(last'.op = "vote_on_proposal" /\ Closed(data[last'.proposal]))
          => /\ data' = data
             /\ last'.res # "Ok"
             /\ last'.signer => last'.res = "InvalidArgument"]_vars

\* A signed vote on an executed proposal has been refused, and the vote slot still holds
\* the ballot cast while the proposal was open.
C9_Witness ==
    /\ last.op = "vote_on_proposal"
    /\ last.res = "InvalidArgument"
    /\ Closed(data[last.proposal])
    /\ Len(last.before) >= 74
    /\ SubSeq(last.before, 33, 64) \in {ALICE, BOB}
    /\ last.before[74] = 1
    /\ data[last.pos] = last.before

\* C10: a successful vote leaves in the vote slot exactly the bytes of
\* Vote{proposal slot's key, signing voter's key, in_favor, weight, initialized = true},
\* the weight being the amount stored in the staking position supplied (0 when that
\* position does not decode).
C10_VoteRecord ==
    [][(last'.op = "vote_on_proposal" /\ last'.res = "Ok")
          => /\ last'.signer
             /\ SubSeq(data'[last'.pos], 1, 74) =
                    KeyOf(last'.proposal) \o last'.caller \o <<BoolByte(last'.in_favor)>>
                    \o (IF Stake_unpack(data[last'.staking]).ok
                        THEN AmountOf(data[last'.staking]) ELSE U64(0))
                    \o <<1>>]_vars

\* A vote has been written with the weight 200 of a position holding 200.
C10_Witness ==
    /\ last.op = "vote_on_proposal"
    /\ last.res = "Ok"
    /\ AmountOf(data[last.staking]) = U64(200)
    /\ SubSeq(data[last.pos], 66, 73) = U64(200)

-----------------------------------------------------------------------------
(* Properties of the ledger as a whole *)

\* The slot holds a Vote written by vote_on_proposal.
VoteWritten(buf) == Len(buf) >= 74 /\ buf[74] # 0

-----------------------------------------------------------------------------
(* Properties of the bridge *)

\* C20: lock_tokens_for_bridge asks for a transfer only for a sender that signed: unsigned
\* it fails with MissingRequiredSignature and asks for none; signed it asks for exactly
\* one transfer of amount from the sender to the bridge pool, whatever the target chain,
\* and succeeds exactly when that transfer does.
C20_LockForBridge ==
    [][last'.op = "lock_tokens_for_bridge"
          => /\ data' = data /\ engine' = engine
             /\ IF ~last'.signer
                THEN last'.res = "MissingRequiredSignature" /\ last'.transfers = <<>>
                ELSE /\ last'.transfers = <<SystemTransfer("sender", "bridge", last'.amount)>>
                     /\ (last'.res = "Ok") = last'.transfer_ok]_vars

\* An unsigned lock of 1000 has been refused without a transfer.
C20_Witness ==
    /\ last.op = "lock_tokens_for_bridge"
    /\ ~last.signer
    /\ last.amount = U64(1000)
    /\ last.res = "MissingRequiredSignature"
    /\ last.transfers = <<>>

\* C21: what release_tokens_on_target_chain asks for and returns does not depend on the
\* attestation, the target-chain address or any signature: every call asks for one
\* transfer of amount from the bridge pool to the recipient, and two calls in a row that
\* agree on amount and on the fate of the transfer return the same result.
C21_ReleaseIgnoresAttestation ==
    [][last'.op = "release_tokens_on_target_chain"
          => /\ last'.transfers = <<SystemTransfer("bridge", "recipient", last'.amount)>>
             /\ (last'.res = "Ok") = last'.transfer_ok
             /\ ( /\ last.op = "release_tokens_on_target_chain"
                  /\ last.amount = last'.amount
                  /\ last.transfer_ok = last'.transfer_ok )
                => (last'.res = last.res /\ last'.transfers = last.transfers)]_vars

\* A release with no signer present and an attestation of zero bytes has gone through.
C21_Witness ==
    /\ last.op = "release_tokens_on_target_chain"
    /\ ~last.signer
    /\ last.signature = Zeros(64)
    /\ last.amount = U64(1000)
    /\ last.res = "Ok"
    /\ last.transfers = <<SystemTransfer("bridge", "recipient", U64(1000))>>

-----------------------------------------------------------------------------
(* Properties of the record codecs *)

\* C22: for every Stake, every Vote and every Proposal whose description fits the 300
\* bytes, decoding what encode produced returns the record, equal in every field.
C22_RoundTrip ==
    calc.phase = "codec done" => calc.decoded = Ok(calc.record)

\* The description length the buffer declares leaves room, after the 4-byte prefix, for
\* the description and the 42 bytes of fixed fields.
DeclaredFits(buf) ==
    /\ Len(buf) >= 4
    /\ buf[3] = 0 /\ buf[4] = 0
    /\ 4 + (buf[1] + 256 * buf[2]) + 42 <= Len(buf)

\* C23: Proposal decode returns the malformed-data error, without reading outside the
\* buffer or aborting, for every buffer shorter than the 46 bytes of the smallest record
\* or whose declared description length leaves no room for the description and the 42
\* bytes after it.
C23_DecodeBoundsChecked ==
    (calc.phase = "decode done" /\ (Len(calc.buf) < 46 \/ ~DeclaredFits(calc.buf)))
        => calc.decoded = Err("InvalidAccountData")

-----------------------------------------------------------------------------
(* Properties of create_proposal *)

\* C28: create_proposal by a signer with a description of more than 254 bytes returns an
\* error, neither success nor an abort, and leaves the proposal slot as it was.
C28_LongDescriptionRefused ==
    [][\A pos \in ProposalSlots :
          (last'.op = "create_proposal" /\ last'.pos = pos /\ last'.signer /\ Len(last'.description) > 254)
          => /\ last'.res \notin {"Ok", "Panic"}
             /\ data'[pos] = data[pos]]_vars

\* What a description of 255 bytes leaves when it aborts: its length and text and the
\* proposer, active flag and timestamp behind them, over whatever the slot held.
C28_PartialRecord ==
    /\ last.op = "create_proposal"
    /\ last.res = "Panic"
    /\ Len(last.description) = 255
    /\ SubSeq(data[last.pos], 1, 4) = <<255, 0, 0, 0>>
    /\ SubSeq(data[last.pos], 260, 291) = last.caller
    /\ data[last.pos] # last.before

-----------------------------------------------------------------------------
(* Properties of vote weights *)

\* C25: a signed vote on an open proposal with a staking position that does not decode
\* succeeds and writes a Vote of weight 0.
C25_UndecodableStakeVotesZero ==
    [][( /\ last'.op = "vote_on_proposal"
         /\ last'.signer
         /\ Open(data[last'.proposal])
         /\ ~Stake_unpack(data[last'.staking]).ok )
          => /\ last'.res = "Ok"
             /\ SubSeq(data'[last'.pos], 66, 73) = U64(0)
             /\ data'[last'.pos][74] = 1]_vars

\* The same, for the votes cast into a slot that has room for the five fields.
C25_InRoomySlot ==
    [][( /\ last'.op = "vote_on_proposal"
         /\ last'.signer
         /\ Open(data[last'.proposal])
         /\ Len(data[last'.pos]) >= 74
         /\ ~Stake_unpack(data[last'.staking]).ok )
          => /\ last'.res = "Ok"
             /\ SubSeq(data'[last'.pos], 66, 73) = U64(0)
             /\ data'[last'.pos][74] = 1]_vars

\* C26: while the proposal is open, a signed vote into a slot that holds an initialized
\* Vote succeeds and leaves the bytes of a whole new record, its weight the amount the
\* staking position holds at the second vote.
C26_Revote ==
    [][( /\ last'.op = "vote_on_proposal"
         /\ last'.signer
         /\ Open(data[last'.proposal])
         /\ VoteWritten(data[last'.pos]) )
          => /\ last'.res = "Ok"
             /\ data'[last'.pos] =
                    KeyOf(last'.proposal) \o last'.caller \o <<BoolByte(last'.in_favor)>>
                    \o (IF Stake_unpack(data[last'.staking]).ok
                        THEN AmountOf(data[last'.staking]) ELSE U64(0))
                    \o <<1>>]_vars

\* Alice's ballot of weight 200 has been replaced by Bob's, of the weight the position
\* holds after an unstake.
C26_Witness ==
    /\ last.op = "vote_on_proposal"
    /\ last.res = "Ok"
    /\ VoteWritten(last.before)
    /\ SubSeq(last.before, 33, 64) = ALICE
    /\ SubSeq(last.before, 66, 73) = U64(200)
    /\ SubSeq(data[last.pos], 33, 64) = BOB
    /\ SubSeq(data[last.pos], 66, 73) # U64(200)

-----------------------------------------------------------------------------
(* Properties of the dispatcher *)

\* C24: a new engine holds total_staked = 0, reward_pool = 15,000,000, penalty_pool = 0,
\* and every dispatched stake, unstake and vote works on a new one: the totals an
\* invocation ends with show that invocation alone, whatever the one before it left.
C24_FreshEnginePerCall ==
    [][/\ (last'.op = "stake_tokens" /\ last'.res = "Ok")
            => engine' = [total_staked |-> last'.amount, reward_pool |-> U64(15000000),
                          penalty_pool |-> U64(0)]
       /\ (last'.op = "stake_tokens" /\ last'.res \notin {"Ok", "Panic"})
            => engine' = [total_staked |-> U64(0), reward_pool |-> U64(15000000),
                          penalty_pool |-> U64(0)]
       /\ last'.op = "unstake_tokens"
            => /\ engine'.total_staked = U64(0)
               /\ engine'.reward_pool = U64(15000000)
               /\ LeU(engine'.penalty_pool, last'.amount)
               /\ (last'.res \notin {"Ok", "TransferFailed"} => engine'.penalty_pool = U64(0))
       /\ (last'.op = "vote_on_proposal" /\ last'.res = "Ok")
            => engine' = [total_staked |-> U64(0), reward_pool |-> U64(15000000),
                          penalty_pool |-> U64(0)]]_vars

\* A stake of 200 has been dispatched onto a position that held 1000, after an invocation
\* that left totals of its own: its engine ends with total_staked = 200.
C24_Witness ==
    /\ last.op = "stake_tokens"
    /\ last.res = "Ok"
    /\ steps = 2
    /\ AmountOf(last.before) = U64(1000)
    /\ last.amount = U64(200)
    /\ engine.total_staked = U64(200)

\* C31: every unstake dispatched through opcode 4 ends with total_staked = 0,
\* reward_pool = 15,000,000 and penalty_pool equal to its own penalty_amount (0 when it
\* was refused before the penalty was computed): the redistribution never moves a
\* penalty into reward_pool.
C31_DispatchedUnstakeKeepsPenalty ==
    [][\A pos \in StakeSlots :
          (last'.op = "unstake_tokens" /\ last'.pos = pos)
          => LET pct == TierOf(NatOf(SubSeq(data[pos], 9, 16)) - NatOf(now))
                 penalty_amount == (NatOf(last'.amount) * pct) \div 100
             IN  /\ NatOf(engine'.total_staked) = 0
                 /\ NatOf(engine'.reward_pool) = 15000000
                 /\ NatOf(engine'.penalty_pool) =
                       (IF last'.res \in {"Ok", "TransferFailed"} THEN penalty_amount ELSE 0)]_vars

\* A dispatched unstake of 200 from a locked position of 1000 has succeeded and its
\* penalty of 20 sits in penalty_pool.
C31_Witness ==
    /\ last.op = "unstake_tokens"
    /\ last.res = "Ok"
    /\ last.ix = <<4>> \o U64(200)
    /\ AmountOf(last.before) = U64(1000)
    /\ engine.total_staked = U64(0)
    /\ engine.reward_pool = U64(15000000)
    /\ engine.penalty_pool = U64(20)

-----------------------------------------------------------------------------
(* Properties of the tally *)

\* The two ballot slots hold Votes of different voters on the proposal.
TwoVoters(p) ==
    /\ \A v \in BallotSlots : VoteWritten(data[v]) /\ SubSeq(data[v], 1, 32) = KeyOf(p)
    /\ SubSeq(data["vote2"], 33, 64) # SubSeq(data["vote3"], 33, 64)

\* C32: while a proposal is open, the weights of the Votes written on it by distinct
\* voters add up to at most the sum of the amounts held in the staking positions when
\* they were cast.
C32_WeightsWithinStake ==
    \A p \in ProposalSlots :
       (Open(data[p]) /\ TwoVoters(p))
         => NatOf(SubSeq(data["vote2"], 66, 73)) + NatOf(SubSeq(data["vote3"], 66, 73))
              <= SumStored(data, StakeSlots)

\* With nothing staked the votes of two voters weigh 0 together.
C32_TwoVotersNoStake ==
    \A p \in ProposalSlots :
       (Open(data[p]) /\ TwoVoters(p) /\ SumStored(data, StakeSlots) = 0)
         => NatOf(SubSeq(data["vote2"], 66, 73)) + NatOf(SubSeq(data["vote3"], 66, 73)) = 0

====
